---------------------------- MODULE Spec2Model ----------------------------
(***************************************************************************)
(* A model of the authenticated API client and artifact-upload pipeline of *)
(* the Vulnetix CLI:                                                       *)
(*   - the bearer-token cache of the VDB client (Client.GetToken),         *)
(*   - the chunked upload protocol (UploadFile / SimpleUpload /            *)
(*     ChunkedUpload),                                                     *)
(*   - the artifact transaction uploader (validateTxnID, UploadArtifact,   *)
(*     GetTransactionStatus),                                              *)
(*   - zip extraction of downloaded artifacts (extractZip),                *)
(*   - credential resolution (auth.LoadCredentials).                       *)
(* Each component has its own specification (SpecToken, SpecUpload, ...);  *)
(* the variables of the other components stay at their initial values.     *)
(* Time is counted in minutes.  File sizes are counted in bytes.           *)
(***************************************************************************)
EXTENDS Integers, Sequences, FiniteSets, TLC

(***************************************************************************)
(* Bounds of the model.                                                    *)
(***************************************************************************)
NumCallers == 2
MaxCalls == 3
MaxTime == 2
MaxFullChunks == 2
MaxTxnLen == 2
MaxUuidLen == 3
MaxEntries == 2
MaxNameDepth == 2
MaxArtifacts == 3
MaxRequests == 2

(***************************************************************************)
(* Program constants.                                                      *)
(***************************************************************************)
\* c.token.ExpiresAt.Add(-3*time.Minute)
SafetyMarginMin == 3

VARIABLES
    \* ---- token cache of one vdb.Client ----
    now,        \* the wall clock read by time.Now(), in minutes
    token,      \* Client.token: the cache entry (present = FALSE models nil)
    readers,    \* goroutines holding tokenMutex.RLock
    writer,     \* goroutine holding tokenMutex.Lock, 0 when none
    pc,         \* position of each GetToken caller
    ret,        \* what each caller's GetToken returned
    chk,        \* the cache entry and clock each caller saw at its last check
    myreq,      \* whether the caller's current call issued a token exchange
    ncalls,     \* number of GetToken calls started so far
    nreq,       \* token-exchange requests issued so far (GET /auth/token)
    nfail,      \* token exchanges that failed so far
    staleSeen,  \* some re-check under the exclusive lock found a stale entry
    cold,       \* whether the cache was empty when the caller's call began
    lastFailed, \* whether the most recent token exchange to finish failed
    \* ---- one upload by upload.Client ----
    upc,        \* position of the upload: idle, initiate, chunk, done
    uentry,     \* the method the caller invoked
    upath,      \* "simple" (SimpleUpload) or "chunked" (ChunkedUpload)
    fileSize,   \* len(data)
    chunkSize,  \* the chunk size passed to InitiateSession
    totalChunks, \* the chunk count passed to InitiateSession
    ui,         \* chunks uploaded so far (the loop variable i)
    usession,   \* session.UploadSessionID
    ulog,       \* the requests sent, in order, each with its outcome
    uresult,    \* what the upload returned
    \* ---- one call on a github.ArtifactUploader ----
    treq,       \* the HTTP request the call issued, if any
    tret,       \* the call: its method, its arguments and what it returned
    sreq,       \* the HTTP request GetArtifactStatus issued, if any
    \* ---- one run of extractZip ----
    zarchive,   \* reader.File: the entries of the archive, in order
    zi,         \* index of the next entry of the loop
    zdirs,      \* directories in the file system (paths from the root)
    zfiles,     \* regular files in the file system
    zret,       \* "none", "running", "nil" or "error"
    zchecked,   \* the run is of the copy of extractZip that checks entry paths
    \* ---- the credential store ----
    cenv,       \* the process environment: variable name -> value ("" = unset)
    cfile,      \* the credentials file of each store
    cread,      \* the stores whose file the latest LoadCredentials read
    cret,       \* what LoadCredentials returned in the present environment
    csave,      \* the latest SaveCredentials call: its result, and what it saved
    cperm,      \* the permission bits of each store's directory and file (0 = absent)
    crm,        \* what the latest RemoveCredentials call did and returned
    \* ---- one run of runGHAUpload ----
    gpc,        \* where the command is: "start", "initiate", "download", "upload", "done"
    gartifacts, \* the artifacts ListArtifacts returned, by name, in order
    gtxn,       \* txnResp.TxnID
    gi,         \* index (from 1) of the artifact the loop is at
    glog,       \* the calls made so far, in order, each with its outcome
    gfailed,    \* the failures printed: artifact index and phase
    gresults,   \* uploadResults: indexes of the artifacts appended
    gdirs,      \* indexes of the artifacts whose extraction directory exists
    gdefer,     \* the deferred os.RemoveAll calls, in order of registration
    gret,       \* what the command returned and the count it printed
    \* ---- one call of ArtifactCollector.DownloadArtifact ----
    dpc,        \* "start", "created", "responded", "saved" or "done"
    dart,       \* the artifact argument: name and declared size
    dtmp,       \* the temporary directory exists
    dinside,    \* what the temporary directory holds
    doutside,   \* the extraction wrote outside the temporary directory
    dret,       \* what the call returned, and the step it returned from
    dchecked,   \* the call is of the copy of DownloadArtifact with the size
                \* check and the sanitized name
    \* ---- a vdb.Client making API requests (Client.DoRequest) ----
    rclient,    \* the client's configuration: AuthMethod, OrgID, APIKey, SecretKey
    rpc,        \* "new", "idle", "token", "sent", "reading" or "done"
    rcalls,     \* DoRequest calls made
    rreq,       \* the API request the current call sent, with its Authorization
    rsrc,       \* where the current call's bearer token came from
    rlast,      \* Client.LastRateLimit
    rret,       \* what the current call returned
    rresp,      \* what HTTPClient.Do and io.ReadAll gave the current call
    rdo,        \* how often the current call has called HTTPClient.Do
    opc,        \* DoRequest of each other goroutine on the same client:
                \* "idle", "token" or "sent"
    \* ---- two Client instances in one process ----
    ktoken,     \* each client's token cache (its token field)
    kpc,        \* each goroutine's call on each client: "idle", "waiting",
                \* "inflight" or "done"
    kret,       \* what each goroutine's latest call on each client returned
    kcalls,     \* calls made on each client
    kissued,    \* tokens the token endpoint has issued
    ktouched,   \* for each client's cache, the clients whose calls read or wrote it
    \* ---- signRequest: two signings side by side ----
    sgprev,     \* the first of two signings: inputs, headers set
    sgcur,      \* the latest signing
    \* ---- the login command: runAuthLogin ----
    lin,        \* what the command was given, and the files as it found them
    lret,       \* how far it got: the error, or the credentials it tested
    \* ---- ArtifactUploader and the upload client, with their credentials ----
    aup,        \* the uploader or upload client that was made: its creds
    areq,       \* the requests it sent, in order, each with its headers
    aresp,      \* the response to the latest request
    aret,       \* what the latest call returned
    \* ---- parseRateLimitHeaders on its own ----
    hin,        \* the response headers it was given
    hout        \* what it returned

tokVars == <<now, token, readers, writer, pc, ret, chk, myreq, ncalls, nreq,
             nfail, staleSeen, cold, lastFailed>>

upVars == <<upc, uentry, upath, fileSize, chunkSize, totalChunks, ui, usession,
            ulog, uresult>>

txnVars == <<treq, tret, sreq>>

zipVars == <<zarchive, zi, zdirs, zfiles, zret, zchecked>>

credVars == <<cenv, cfile, cread, cret, csave, cperm, crm>>

ghaVars == <<gpc, gartifacts, gtxn, gi, glog, gfailed, gresults, gdirs, gdefer, gret>>

dlVars == <<dpc, dart, dtmp, dinside, doutside, dret, dchecked>>

doVars == <<rclient, rpc, rcalls, rreq, rsrc, rlast, rret, rresp, rdo, opc>>

rateVars == <<hin, hout>>

cliVars == <<ktoken, kpc, kret, kcalls, kissued, ktouched>>

signVars == <<sgprev, sgcur>>

loginVars == <<lin, lret>>

authVars == <<aup, areq, aresp, aret>>

vars == <<tokVars, upVars, txnVars, zipVars, credVars, ghaVars, dlVars,
          doVars, rateVars, cliVars, signVars, loginVars, authVars>>

\* What the actions of one component leave alone.
nonTokVars == <<upVars, txnVars, zipVars, credVars, ghaVars, dlVars, doVars,
    rateVars, cliVars, signVars, loginVars, authVars>>

nonUpVars == <<tokVars, txnVars, zipVars, credVars, ghaVars, dlVars, doVars,
    rateVars, cliVars, signVars, loginVars, authVars>>

nonTxnVars == <<tokVars, upVars, zipVars, credVars, ghaVars, dlVars, doVars,
    rateVars, cliVars, signVars, loginVars, authVars>>

nonZipVars == <<tokVars, upVars, txnVars, credVars, ghaVars, dlVars, doVars,
    rateVars, cliVars, signVars, loginVars, authVars>>

nonCredVars == <<tokVars, upVars, txnVars, zipVars, ghaVars, dlVars, doVars,
    rateVars, cliVars, signVars, loginVars, authVars>>

nonGhaVars == <<tokVars, upVars, txnVars, zipVars, credVars, dlVars, doVars,
    rateVars, cliVars, signVars, loginVars, authVars>>

nonDlVars == <<tokVars, upVars, txnVars, zipVars, credVars, ghaVars, doVars,
    rateVars, cliVars, signVars, loginVars, authVars>>

\* Client.DoRequest works on the token cache of the client as well.
nonDoVars == <<upVars, txnVars, zipVars, credVars, ghaVars, dlVars,
    rateVars, cliVars, signVars, loginVars, authVars>>

nonRateVars == <<tokVars, upVars, txnVars, zipVars, credVars, ghaVars,
    dlVars, doVars, cliVars, signVars, loginVars, authVars>>

nonCliVars == <<tokVars, upVars, txnVars, zipVars, credVars, ghaVars,
    dlVars, doVars, rateVars, signVars, loginVars, authVars>>

nonSignVars == <<tokVars, upVars, txnVars, zipVars, credVars, ghaVars,
    dlVars, doVars, rateVars, cliVars, loginVars, authVars>>

nonLoginVars == <<tokVars, upVars, txnVars, zipVars, credVars, ghaVars,
    dlVars, doVars, rateVars, cliVars, signVars, authVars>>

nonAuthVars == <<tokVars, upVars, txnVars, zipVars, credVars, ghaVars,
    dlVars, doVars, rateVars, cliVars, signVars, loginVars>>

(***************************************************************************)
(* Token cache: Client.GetToken and Client.requestNewTokenLocked.          *)
(***************************************************************************)
Callers == 1..NumCallers

\* Lifetimes (minutes until "exp") the token endpoint may hand out: one that
\* is already inside the safety margin when stored, one that is usable for
\* a while.
Lifetimes == {SafetyMarginMin, SafetyMarginMin + 2}

\* Ways requestNewTokenLocked fails: HTTPClient.Do error, status # 200,
\* json.Unmarshal error.
FailKinds == {"transport", "status", "parse"}

NoToken == [present |-> FALSE, Token |-> 0, ExpiresAt |-> 0]

NoRet == [kind |-> "none", tok |-> 0, src |-> "none"]

NoChk == [cache |-> NoToken, at |-> 0]

\* c.token != nil && time.Now().Before(c.token.ExpiresAt.Add(-3*time.Minute))
Usable_NoMargin(t, n) == t.present /\ n < t.ExpiresAt

Usable(t, n) == t.present /\ n < t.ExpiresAt - SafetyMarginMin

InitToken ==
    /\ now = 0
    /\ token = NoToken
    /\ readers = {}
    /\ writer = 0
    /\ pc = [c \in Callers |-> "idle"]
    /\ ret = [c \in Callers |-> NoRet]
    /\ chk = [c \in Callers |-> NoChk]
    /\ myreq = [c \in Callers |-> FALSE]
    /\ ncalls = 0
    /\ nreq = 0
    /\ nfail = 0
    /\ staleSeen = FALSE
    /\ cold = [c \in Callers |-> FALSE]
    /\ lastFailed = FALSE

\* GetToken entry: c.tokenMutex.RLock().  A caller that has its result may
\* call again.
GetTokenEnter(c) ==
    /\ pc[c] \in {"idle", "done"}
    /\ ncalls < MaxCalls
    /\ writer = 0
    /\ readers' = readers \cup {c}
    /\ pc' = [pc EXCEPT ![c] = "rlocked"]
    /\ ncalls' = ncalls + 1
    /\ ret' = [ret EXCEPT ![c] = NoRet]
    /\ chk' = [chk EXCEPT ![c] = NoChk]
    /\ myreq' = [myreq EXCEPT ![c] = FALSE]
    /\ cold' = [cold EXCEPT ![c] = ~token.present]
    /\ UNCHANGED <<now, token, writer, nreq, nfail, staleSeen, lastFailed>>

\* GetToken called on its own.
RLock(c) ==
    /\ GetTokenEnter(c)
    /\ UNCHANGED nonTokVars

\* A variant that goes for the exclusive lock without RUnlock.
ReadCheck_KeepRLock(c) ==
    /\ pc[c] = "rlocked"
    /\ chk' = [chk EXCEPT ![c] = [cache |-> token, at |-> now]]
    /\ IF Usable(token, now)
       THEN /\ ret' = [ret EXCEPT ![c] =
                         [kind |-> "token", tok |-> token.Token, src |-> "cache"]]
            /\ pc' = [pc EXCEPT ![c] = "done"]
            /\ readers' = readers \ {c}
       ELSE /\ pc' = [pc EXCEPT ![c] = "wantlock"]
            /\ UNCHANGED <<ret, readers>>
    /\ UNCHANGED <<now, token, writer, myreq, ncalls, nreq, nfail, staleSeen, cold, lastFailed>>
    /\ UNCHANGED nonTokVars

\* The check under the read lock, then RUnlock: a usable entry is returned,
\* otherwise the caller goes on to tokenMutex.Lock().
ReadCheck(c) ==
    /\ pc[c] = "rlocked"
    /\ chk' = [chk EXCEPT ![c] = [cache |-> token, at |-> now]]
    /\ readers' = readers \ {c}
    /\ IF Usable(token, now)
       THEN /\ ret' = [ret EXCEPT ![c] =
                         [kind |-> "token", tok |-> token.Token, src |-> "cache"]]
            /\ pc' = [pc EXCEPT ![c] = "done"]
       ELSE /\ pc' = [pc EXCEPT ![c] = "wantlock"]
            /\ UNCHANGED ret
    /\ UNCHANGED <<now, token, writer, myreq, ncalls, nreq, nfail, staleSeen, cold, lastFailed>>
    /\ UNCHANGED nonTokVars

\* c.tokenMutex.Lock(): exclusive, waits for the readers and the writer.
Lock_NoExclusion(c) ==
    /\ pc[c] = "wantlock"
    /\ readers = {}
    /\ writer' = c
    /\ pc' = [pc EXCEPT ![c] = "locked"]
    /\ UNCHANGED <<now, token, readers, ret, chk, myreq, ncalls, nreq, nfail,
                   staleSeen, cold, lastFailed>>
    /\ UNCHANGED nonTokVars

Lock(c) ==
    /\ pc[c] = "wantlock"
    /\ readers = {}
    /\ writer = 0
    /\ writer' = c
    /\ pc' = [pc EXCEPT ![c] = "locked"]
    /\ UNCHANGED <<now, token, readers, ret, chk, myreq, ncalls, nreq, nfail,
                   staleSeen, cold, lastFailed>>
    /\ UNCHANGED nonTokVars

\* A variant without the double-check: every caller that got the lock asks
\* for a new token.
WriteCheck_NoRecheck(c) ==
    /\ pc[c] = "locked"
    /\ chk' = [chk EXCEPT ![c] = [cache |-> token, at |-> now]]
    /\ myreq' = [myreq EXCEPT ![c] = TRUE]
    /\ nreq' = nreq + 1
    /\ pc' = [pc EXCEPT ![c] = "inflight"]
    /\ UNCHANGED <<now, token, readers, writer, ret, ncalls, nfail, staleSeen, cold, lastFailed>>
    /\ UNCHANGED nonTokVars

\* The double-check under the write lock.  A usable entry is returned (the
\* deferred Unlock runs); otherwise requestNewTokenLocked builds, signs and
\* sends GET /auth/token.
WriteCheck(c) ==
    /\ pc[c] = "locked"
    /\ chk' = [chk EXCEPT ![c] = [cache |-> token, at |-> now]]
    /\ IF Usable(token, now)
       THEN /\ ret' = [ret EXCEPT ![c] =
                         [kind |-> "token", tok |-> token.Token, src |-> "cache"]]
            /\ pc' = [pc EXCEPT ![c] = "done"]
            /\ writer' = 0
            /\ UNCHANGED <<myreq, nreq, staleSeen>>
       ELSE /\ myreq' = [myreq EXCEPT ![c] = TRUE]
            /\ nreq' = nreq + 1
            /\ staleSeen' = (staleSeen \/ token.present)
            /\ pc' = [pc EXCEPT ![c] = "inflight"]
            /\ UNCHANGED <<ret, writer>>
    /\ UNCHANGED <<now, token, readers, ncalls, nfail, cold, lastFailed>>
    /\ UNCHANGED nonTokVars

\* A variant that keeps the token of an existing entry and moves its expiry.
RespondOK_ExtendInPlace(c, life) ==
    /\ pc[c] = "inflight"
    /\ token' = IF token.present
                THEN [token EXCEPT !.ExpiresAt = now + life]
                ELSE [present |-> TRUE, Token |-> nreq, ExpiresAt |-> now + life]
    /\ ret' = [ret EXCEPT ![c] =
                 [kind |-> "token", tok |-> token'.Token, src |-> "exchange"]]
    /\ pc' = [pc EXCEPT ![c] = "done"]
    /\ writer' = 0
    /\ lastFailed' = FALSE
    /\ UNCHANGED <<now, readers, chk, myreq, ncalls, nreq, nfail, staleSeen,
                   cold>>
    /\ UNCHANGED nonTokVars

\* requestNewTokenLocked, status 200 and a parseable body: the entry is
\* replaced by {Token, time.Unix(Exp, 0)} and the token returned.  The token
\* string is modelled by the number of the request that obtained it.
RespondOK(c, life) ==
    /\ pc[c] = "inflight"
    /\ token' = [present |-> TRUE, Token |-> nreq, ExpiresAt |-> now + life]
    /\ ret' = [ret EXCEPT ![c] =
                 [kind |-> "token", tok |-> nreq, src |-> "exchange"]]
    /\ pc' = [pc EXCEPT ![c] = "done"]
    /\ writer' = 0
    /\ lastFailed' = FALSE
    /\ UNCHANGED <<now, readers, chk, myreq, ncalls, nreq, nfail, staleSeen,
                   cold>>
    /\ UNCHANGED nonTokVars

\* A failure that also drops the cache entry.
RespondFail_Poison(c, kind) ==
    /\ pc[c] = "inflight"
    /\ token' = NoToken
    /\ ret' = [ret EXCEPT ![c] = [kind |-> "error", tok |-> 0, src |-> kind]]
    /\ pc' = [pc EXCEPT ![c] = "done"]
    /\ writer' = 0
    /\ nfail' = nfail + 1
    /\ lastFailed' = TRUE
    /\ UNCHANGED <<now, readers, chk, myreq, ncalls, nreq, staleSeen, cold>>
    /\ UNCHANGED nonTokVars

\* requestNewTokenLocked returning an error: c.token is not assigned.
RespondFail(c, kind) ==
    /\ pc[c] = "inflight"
    /\ ret' = [ret EXCEPT ![c] = [kind |-> "error", tok |-> 0, src |-> kind]]
    /\ pc' = [pc EXCEPT ![c] = "done"]
    /\ writer' = 0
    /\ nfail' = nfail + 1
    /\ lastFailed' = TRUE
    /\ UNCHANGED <<now, token, readers, chk, myreq, ncalls, nreq, staleSeen, cold>>
    /\ UNCHANGED nonTokVars

\* Time passes.
Tick ==
    /\ now < MaxTime
    /\ now' = now + 1
    /\ UNCHANGED <<token, readers, writer, pc, ret, chk, myreq, ncalls, nreq,
                   nfail, staleSeen, cold, lastFailed>>
    /\ UNCHANGED nonTokVars

(***************************************************************************)
(* Chunked upload: UploadFile, SimpleUpload, ChunkedUpload and the three   *)
(* session calls InitiateSession, UploadChunk, FinalizeUpload.             *)
(***************************************************************************)
MiB == 1024 * 1024

\* ChunkThreshold = 10 * 1024 * 1024
ChunkThreshold == 10 * MiB

\* DefaultChunkSize = 5 * 1024 * 1024
DefaultChunkSize == 5 * MiB

\* File sizes tried: every number of full chunks up to the bound, plus a
\* remainder of 0, 1 byte, 2 MiB or one byte short of a chunk.
Remainders == {0, 1, 2 * MiB, DefaultChunkSize - 1}

FileSizes == {k * DefaultChunkSize + r : k \in 0..MaxFullChunks, r \in Remainders}

SessionIds == {"s1", "s2"}

\* Outcomes of one HTTP call as the session calls tell them apart: a body
\* with ok = true, a body with ok = false, HTTPClient.Do failing, a status
\* >= 400, a body that does not parse.
Outcomes == {"ok", "notok", "transport", "http", "parse"}

\* InitiateSession and FinalizeUpload return an error for everything but a
\* parsed body with ok = true.
SessionCallFails(o) == o # "ok"

\* UploadChunk returns an error for a transport failure, a status >= 400 or
\* an unparseable body; it does not look at the ok field of the body.
UploadChunkFails(o) == o \in {"transport", "http", "parse"}

NoResult ==
    [kind |-> "none", phase |-> "none", n |-> 0, cause |-> "none",
     msg |-> "", idx |-> 0, of |-> 0]

\* The *FinalizeResponse returned with a nil error.
OkResult == [NoResult EXCEPT !.kind = "ok"]

\* fmt.Errorf(<text>: %w, err) at the failed call of the given phase, n being
\* i+1 of the chunk loop.  ChunkedUpload writes "failed to upload chunk
\* %d/%d" with i+1 and totalChunks; SimpleUpload writes "failed to upload
\* data" and no number.  The error of the call is wrapped as it came.
UploadError(path, phase, n, total, cause) ==
    [kind |-> "error", phase |-> phase, n |-> n, cause |-> cause,
     msg |-> IF path = "chunked"
             THEN CASE phase = "initiate" -> "failed to initiate chunked upload"
                    [] phase = "chunk" -> "failed to upload chunk %d/%d"
                    [] OTHER -> "failed to finalize chunked upload"
             ELSE CASE phase = "initiate" -> "failed to initiate upload"
                    [] phase = "chunk" -> "failed to upload data"
                    [] OTHER -> "failed to finalize upload",
     idx |-> IF path = "chunked" /\ phase = "chunk" THEN n ELSE 0,
     of |-> IF path = "chunked" /\ phase = "chunk" THEN total ELSE 0]

\* totalChunks := (fileSize + chunkSize - 1) / chunkSize
TotalChunks_Floor(size, csize) == size \div csize

TotalChunks(size, csize) == (size + csize - 1) \div csize

\* start := i * chunkSize; end := start + chunkSize; if end > fileSize { end =
\* fileSize }; chunk := data[start:end]
ChunkBounds_NoClamp(i, size, csize) ==
    [start |-> i * csize, end |-> i * csize + csize]

ChunkBounds(i, size, csize) ==
    LET start == i * csize
        end == start + csize
    IN  [start |-> start, end |-> IF end > size THEN size ELSE end]

InitUpload ==
    /\ upc = "idle"
    /\ uentry = "none"
    /\ upath = "none"
    /\ fileSize = 0
    /\ chunkSize = 0
    /\ totalChunks = 0
    /\ ui = 0
    /\ usession = "none"
    /\ ulog = <<>>
    /\ uresult = NoResult

\* A variant that still takes the single-chunk path at the threshold.
UploadFilePath_Inclusive(size) ==
    IF size <= ChunkThreshold THEN "simple" ELSE "chunked"

\* if len(data) < ChunkThreshold { SimpleUpload } else { ChunkedUpload }
UploadFilePath(size) == IF size < ChunkThreshold THEN "simple" ELSE "chunked"

\* fmt.Errorf("failed to read file %s: %w", filePath, err): the error of
\* UploadFile when os.ReadFile fails, before any session call.
ReadFileError ==
    [NoResult EXCEPT !.kind = "error", !.phase = "read", !.cause = "readfile",
                     !.msg = "failed to read file"]

\* UploadFile(filePath, ...): os.ReadFile fails, or gives the bytes of a
\* file of the given size.
UploadFile(readable, size) ==
    /\ upc = "idle"
    /\ uentry' = "UploadFile"
    /\ IF ~readable
       THEN /\ upc' = "done"
            /\ uresult' = ReadFileError
            /\ UNCHANGED <<upath, fileSize, chunkSize, totalChunks>>
       ELSE /\ upath' = UploadFilePath(size)
            /\ fileSize' = size
            /\ chunkSize' = IF UploadFilePath(size) = "simple"
                            THEN size ELSE DefaultChunkSize
            /\ totalChunks' = IF UploadFilePath(size) = "simple"
                              THEN 1 ELSE TotalChunks(size, DefaultChunkSize)
            /\ upc' = "initiate"
            /\ UNCHANGED uresult
    /\ UNCHANGED <<ui, usession, ulog>>
    /\ UNCHANGED nonUpVars

\* SimpleUpload(fileName, data, ...) called directly: one chunk of len(data).
SimpleUpload(size) ==
    /\ upc = "idle"
    /\ uentry' = "SimpleUpload"
    /\ upath' = "simple"
    /\ fileSize' = size
    /\ chunkSize' = size
    /\ totalChunks' = 1
    /\ upc' = "initiate"
    /\ UNCHANGED <<ui, usession, ulog, uresult>>
    /\ UNCHANGED nonUpVars

\* ChunkedUpload(fileName, data, ...) called directly.
ChunkedUpload(size) ==
    /\ upc = "idle"
    /\ uentry' = "ChunkedUpload"
    /\ upath' = "chunked"
    /\ fileSize' = size
    /\ chunkSize' = DefaultChunkSize
    /\ totalChunks' = TotalChunks(size, DefaultChunkSize)
    /\ upc' = "initiate"
    /\ UNCHANGED <<ui, usession, ulog, uresult>>
    /\ UNCHANGED nonUpVars

\* c.InitiateSession(fileName, fileSize, contentType, totalChunks, chunkSize)
\* and the caller's error check.
Initiate(o, sid) ==
    /\ upc = "initiate"
    /\ ulog' = Append(ulog, [kind |-> "initiate", n |-> 0, start |-> 0,
                             end |-> 0, session |-> "none",
                             fileSize |-> fileSize, totalChunks |-> totalChunks,
                             chunkSize |-> chunkSize,
                             err |-> SessionCallFails(o)])
    /\ IF SessionCallFails(o)
       THEN /\ upc' = "done"
            /\ uresult' = UploadError(upath, "initiate", 0, totalChunks, o)
            /\ UNCHANGED usession
       ELSE /\ upc' = "chunk"
            /\ usession' = sid
            /\ UNCHANGED uresult
    /\ UNCHANGED <<uentry, upath, fileSize, chunkSize, totalChunks, ui>>
    /\ UNCHANGED nonUpVars

\* The bytes of the next chunk: all of data in SimpleUpload, data[start:end]
\* in the loop of ChunkedUpload.
NextChunk ==
    IF upath = "simple"
    THEN [start |-> 0, end |-> fileSize]
    ELSE ChunkBounds(ui, fileSize, chunkSize)

\* A variant of the chunk step that goes on after a failed chunk.
UploadChunkStep_Continue(o) ==
    /\ upc = "chunk"
    /\ ui < totalChunks
    /\ ulog' = Append(ulog, [kind |-> "chunk", n |-> ui + 1,
                             start |-> NextChunk.start, end |-> NextChunk.end,
                             session |-> usession,
                             fileSize |-> 0, totalChunks |-> 0, chunkSize |-> 0,
                             err |-> UploadChunkFails(o)])
    /\ ui' = ui + 1
    /\ UNCHANGED <<upc, uresult, uentry, upath, fileSize, chunkSize, totalChunks,
                   usession>>
    /\ UNCHANGED nonUpVars

\* A variant that sends a chunk again after a status of 400 or more.
UploadChunkStep_Resend(o) ==
    /\ upc = "chunk"
    /\ ui < totalChunks
    /\ ulog' = Append(ulog, [kind |-> "chunk", n |-> ui + 1,
                             start |-> NextChunk.start, end |-> NextChunk.end,
                             session |-> usession,
                             fileSize |-> 0, totalChunks |-> 0, chunkSize |-> 0,
                             err |-> UploadChunkFails(o)])
    /\ IF UploadChunkFails(o) /\ (o # "http" \/ ulog[Len(ulog)].err)
       THEN /\ upc' = "done"
            /\ uresult' = UploadError(upath, "chunk", ui + 1, totalChunks, o)
            /\ UNCHANGED ui
       ELSE IF UploadChunkFails(o)
       THEN UNCHANGED <<ui, upc, uresult>>
       ELSE /\ ui' = ui + 1
            /\ UNCHANGED <<upc, uresult>>
    /\ UNCHANGED <<uentry, upath, fileSize, chunkSize, totalChunks, usession>>
    /\ UNCHANGED nonUpVars

\* c.UploadChunk(session.UploadSessionID, i+1, chunk) and the caller's error
\* check: chunk 1 of SimpleUpload, or one iteration of the loop of
\* ChunkedUpload.
UploadChunkStep(o) ==
    /\ upc = "chunk"
    /\ ui < totalChunks
    /\ ulog' = Append(ulog, [kind |-> "chunk", n |-> ui + 1,
                             start |-> NextChunk.start, end |-> NextChunk.end,
                             session |-> usession,
                             fileSize |-> 0, totalChunks |-> 0, chunkSize |-> 0,
                             err |-> UploadChunkFails(o)])
    /\ IF UploadChunkFails(o)
       THEN /\ upc' = "done"
            /\ uresult' = UploadError(upath, "chunk", ui + 1, totalChunks, o)
            /\ UNCHANGED ui
       ELSE /\ ui' = ui + 1
            /\ UNCHANGED <<upc, uresult>>
    /\ UNCHANGED <<uentry, upath, fileSize, chunkSize, totalChunks, usession>>
    /\ UNCHANGED nonUpVars

\* A variant that finalizes without waiting for the chunks.
Finalize_Early(o) ==
    /\ upc = "chunk"
    /\ ulog' = Append(ulog, [kind |-> "finalize", n |-> 0, start |-> 0,
                             end |-> 0, session |-> usession,
                             fileSize |-> 0, totalChunks |-> 0, chunkSize |-> 0,
                             err |-> SessionCallFails(o)])
    /\ upc' = "done"
    /\ uresult' = IF SessionCallFails(o)
                  THEN UploadError(upath, "finalize", 0, totalChunks, o)
                  ELSE OkResult
    /\ UNCHANGED <<uentry, upath, fileSize, chunkSize, totalChunks, ui, usession>>
    /\ UNCHANGED nonUpVars

\* c.FinalizeUpload(session.UploadSessionID), reached when the chunks are
\* through, and the caller's error check.
Finalize(o) ==
    /\ upc = "chunk"
    /\ ui >= totalChunks
    /\ ulog' = Append(ulog, [kind |-> "finalize", n |-> 0, start |-> 0,
                             end |-> 0, session |-> usession,
                             fileSize |-> 0, totalChunks |-> 0, chunkSize |-> 0,
                             err |-> SessionCallFails(o)])
    /\ upc' = "done"
    /\ uresult' = IF SessionCallFails(o)
                  THEN UploadError(upath, "finalize", 0, totalChunks, o)
                  ELSE OkResult
    /\ UNCHANGED <<uentry, upath, fileSize, chunkSize, totalChunks, ui, usession>>
    /\ UNCHANGED nonUpVars


(***************************************************************************)
(* Artifact transaction uploader: validateTxnID, UploadArtifact and        *)
(* GetTransactionStatus.  A transaction id is a sequence of code points.   *)
(***************************************************************************)
\* Code points tried in transaction ids: the ends of the ranges of the
\* character class and their neighbours, the characters '-', '_', '/', '.',
\* ' ', '@', a line feed and a non-ASCII letter.
TxnAlphabet == {10, 32, 45, 46, 47, 48, 57, 58, 64, 65, 90, 91, 95, 96, 97, 122,
                123, 233}

RECURSIVE SeqsUpTo(_, _)
SeqsUpTo(S, n) ==
    IF n = 0 THEN {<<>>}
    ELSE LET shorter == SeqsUpTo(S, n - 1)
         IN  shorter \cup {Append(q, x) : q \in shorter, x \in S}

TxnIds == SeqsUpTo(TxnAlphabet, MaxTxnLen)

\* States of artifactDir as findFilesInDir finds it: filepath.Walk fails,
\* no regular file, some files; files of which the first that fails cannot
\* be opened (os.Open), and files that open of which one cannot be read
\* (io.Copy).
DirStates == {"unreadable", "empty", "unopenable", "uncopyable", "files"}

\* The error of UploadArtifact for a directory it cannot send.
DirError(dir) ==
    CASE dir = "unreadable" -> "failed to find files"
      [] dir = "empty" -> "no files found"
      [] dir = "unopenable" -> "failed to open file"
      [] OTHER -> "failed to copy file content"

\* What client.Do and the response amount to: a transport error, or a status
\* with a body that cannot be read to its end (io.ReadAll fails), does not
\* decode, decodes with success = true, or decodes with success = false.
TxnResponses ==
    {[transport |-> TRUE, status |-> 0, body |-> "none"]} \cup
    [transport : {FALSE}, status : {200, 201, 404},
     body : {"unread", "garbage", "success", "failure"}]

NoReq == [method |-> "none", route |-> "none", txn |-> <<>>]

NoCall == [op |-> "none", txn |-> <<>>, kind |-> "none"]

NoStatusReq == [method |-> "none", route |-> "none", uuid |-> <<>>]

\* One character of [a-zA-Z0-9_-]
InTxnClass(ch) ==
    \/ ch \in 97..122
    \/ ch \in 65..90
    \/ ch \in 48..57
    \/ ch = 95
    \/ ch = 45

\* A variant of the pattern without its anchors: one character of the class
\* anywhere is enough.
txnIDRegexMatch_Unanchored(txnID) ==
    \E i \in 1..Len(txnID) : InTxnClass(txnID[i])

\* txnIDRegex.MatchString(txnID) for ^[a-zA-Z0-9_-]+$ ($ is the end of the
\* text: no multi-line flag)
txnIDRegexMatch(txnID) ==
    /\ Len(txnID) >= 1
    /\ \A i \in 1..Len(txnID) : InTxnClass(txnID[i])

\* A validation that only refuses the empty id.
validateTxnID_EmptyOnly(txnID) == IF txnID = <<>> THEN "empty" ELSE "nil"

\* validateTxnID: "nil", or which error
validateTxnID(txnID) ==
    IF txnID = <<>> THEN "empty"
    ELSE IF ~txnIDRegexMatch(txnID) THEN "format"
    ELSE "nil"

InitTxn ==
    /\ treq = NoReq
    /\ tret = NoCall
    /\ sreq = NoStatusReq

\* UploadArtifact(txnID, artifactName, artifactDir) up to client.Do(req):
\* validation, findFilesInDir, the multipart body and the request.
UploadArtifact(txnID, dir) ==
    /\ tret = NoCall
    /\ IF validateTxnID(txnID) # "nil"
       THEN /\ treq' = NoReq
            /\ tret' = [op |-> "UploadArtifact", txn |-> txnID,
                        kind |-> "invalid transaction ID"]
       ELSE IF dir # "files"
       THEN /\ treq' = NoReq
            /\ tret' = [op |-> "UploadArtifact", txn |-> txnID,
                        kind |-> DirError(dir)]
       ELSE /\ treq' = [method |-> "POST", route |-> "artifact-upload/{txn}",
                        txn |-> txnID]
            /\ tret' = [op |-> "UploadArtifact", txn |-> txnID,
                        kind |-> "pending"]
    /\ UNCHANGED sreq
    /\ UNCHANGED nonTxnVars

\* UploadArtifact from the return of client.Do(req) on.
UploadArtifactResponse(resp) ==
    /\ tret.op = "UploadArtifact"
    /\ tret.kind = "pending"
    /\ tret' = [tret EXCEPT !.kind =
                    IF resp.transport THEN "upload request failed"
                    ELSE IF resp.body = "unread" THEN "failed to read response"
                    ELSE IF resp.status # 200 /\ resp.status # 201
                    THEN "failed with status"
                    ELSE IF resp.body = "garbage"
                    THEN "failed to decode response"
                    ELSE IF resp.body # "success"
                    THEN "artifact upload failed"
                    ELSE "ok"]
    /\ UNCHANGED treq
    /\ UNCHANGED sreq
    /\ UNCHANGED nonTxnVars

\* GetTransactionStatus(txnID) up to client.Do(req).
GetTransactionStatus(txnID) ==
    /\ tret = NoCall
    /\ IF validateTxnID(txnID) # "nil"
       THEN /\ treq' = NoReq
            /\ tret' = [op |-> "GetTransactionStatus", txn |-> txnID,
                        kind |-> "invalid transaction ID"]
       ELSE /\ treq' = [method |-> "GET",
                        route |-> "artifact-upload/{txn}/status", txn |-> txnID]
            /\ tret' = [op |-> "GetTransactionStatus", txn |-> txnID,
                        kind |-> "pending"]
    /\ UNCHANGED sreq
    /\ UNCHANGED nonTxnVars

\* GetTransactionStatus from the return of client.Do(req) on.
GetTransactionStatusResponse(resp) ==
    /\ tret.op = "GetTransactionStatus"
    /\ tret.kind = "pending"
    /\ tret' = [tret EXCEPT !.kind =
                    IF resp.transport THEN "status request failed"
                    ELSE IF resp.body = "unread" THEN "failed to read response"
                    ELSE IF resp.status # 200
                    THEN "failed with status"
                    ELSE IF resp.body = "garbage"
                    THEN "failed to decode response"
                    ELSE "ok"]
    /\ UNCHANGED treq
    /\ UNCHANGED sreq
    /\ UNCHANGED nonTxnVars

\* Code points tried in artifact UUIDs: the letter 'a' (a hex digit), '-',
\* '?', '#', '%' and a line feed.
UuidAlphabet == {10, 35, 37, 45, 63, 97}

ArtifactUUIDs == SeqsUpTo(UuidAlphabet, MaxUuidLen)

\* An ASCII control character, which url.Parse refuses before the fragment.
IsCTL(ch) == ch < 32 \/ ch = 127

\* ishex of net/url: 0-9, a-f, A-F.
IsHex(ch) == (48 <= ch /\ ch <= 57) \/ (97 <= ch /\ ch <= 102) \/ (65 <= ch /\ ch <= 70)

\* The part of the text before the first '#': url.Parse cuts the fragment
\* off first.
RECURSIVE BeforeFragment(_)
BeforeFragment(text) ==
    IF text = <<>> \/ Head(text) = 35 THEN <<>>
    ELSE <<Head(text)>> \o BeforeFragment(Tail(text))

\* The part of the text after the first '#'.
AfterFragment(text) ==
    IF Len(BeforeFragment(text)) = Len(text) THEN <<>>
    ELSE SubSeq(text, Len(BeforeFragment(text)) + 2, Len(text))

\* The part of the text before the first '?': url.Parse puts the rest into
\* the query.
RECURSIVE BeforeQuery(_)
BeforeQuery(text) ==
    IF text = <<>> \/ Head(text) = 63 THEN <<>>
    ELSE <<Head(text)>> \o BeforeQuery(Tail(text))

\* The part of the UUID that stays in the path of the URL.
PathPart(text) == BeforeQuery(BeforeFragment(text))

\* unescape of net/url refuses a '%' that is not followed by two hex digits.
\* What follows the UUID in the URL, "/status", starts with no hex digit.
InvalidEscape(part) ==
    \E i \in 1..Len(part) :
        /\ part[i] = 37
        /\ ~(i + 2 <= Len(part) /\ IsHex(part[i + 1]) /\ IsHex(part[i + 2]))

\* http.NewRequest("GET", url, nil) fails when url.Parse does: a control
\* character before the fragment, or an invalid percent escape in the path
\* or in the fragment; the query is taken as it is.
NewRequestFails(text) ==
    \/ \E i \in 1..Len(BeforeFragment(text)) : IsCTL(text[i])
    \/ InvalidEscape(PathPart(text))
    \/ InvalidEscape(AfterFragment(text))

\* The request built from fmt.Sprintf("%s/%s/github/artifact/%s/status", ...):
\* the UUID goes into the URL as it is, so a '?' or a '#' in it ends the path.
ArtifactStatusRequest(artifactUUID) ==
    [method |-> "GET",
     route |-> IF PathPart(artifactUUID) = artifactUUID
               THEN "artifact/{uuid}/status" ELSE "artifact/{uuid}",
     uuid |-> PathPart(artifactUUID)]

\* A variant without the check for the empty UUID.
GetArtifactStatus_NoEmptyCheck(artifactUUID) ==
    /\ tret = NoCall
    /\ IF NewRequestFails(artifactUUID)
       THEN /\ sreq' = NoStatusReq
            /\ tret' = [op |-> "GetArtifactStatus", txn |-> artifactUUID,
                        kind |-> "failed to create request"]
       ELSE /\ sreq' = ArtifactStatusRequest(artifactUUID)
            /\ tret' = [op |-> "GetArtifactStatus", txn |-> artifactUUID,
                        kind |-> "pending"]
    /\ UNCHANGED treq
    /\ UNCHANGED nonTxnVars

\* GetArtifactStatus(artifactUUID) up to client.Do(req).
GetArtifactStatus(artifactUUID) ==
    /\ tret = NoCall
    /\ IF artifactUUID = <<>>
       THEN /\ sreq' = NoStatusReq
            /\ tret' = [op |-> "GetArtifactStatus", txn |-> artifactUUID,
                        kind |-> "artifact UUID cannot be empty"]
       ELSE IF NewRequestFails(artifactUUID)
       THEN /\ sreq' = NoStatusReq
            /\ tret' = [op |-> "GetArtifactStatus", txn |-> artifactUUID,
                        kind |-> "failed to create request"]
       ELSE /\ sreq' = ArtifactStatusRequest(artifactUUID)
            /\ tret' = [op |-> "GetArtifactStatus", txn |-> artifactUUID,
                        kind |-> "pending"]
    /\ UNCHANGED treq
    /\ UNCHANGED nonTxnVars

\* GetArtifactStatus from the return of client.Do(req) on.
GetArtifactStatusResponse(resp) ==
    /\ tret.op = "GetArtifactStatus"
    /\ tret.kind = "pending"
    /\ tret' = [tret EXCEPT !.kind =
                    IF resp.transport THEN "status request failed"
                    ELSE IF resp.body = "unread" THEN "failed to read response"
                    ELSE IF resp.status # 200
                    THEN "failed with status"
                    ELSE IF resp.body = "garbage"
                    THEN "failed to decode response"
                    ELSE "ok"]
    /\ UNCHANGED <<treq, sreq>>
    /\ UNCHANGED nonTxnVars

(***************************************************************************)
(* Zip extraction: extractZip(zipPath, destDir).  A path is the sequence of *)
(* its components from the root; an entry name is the sequence of the      *)
(* components between its slashes.                                         *)
(***************************************************************************)
ZipComponents == {"..", "a"}

ZipNames == SeqsUpTo(ZipComponents, MaxNameDepth) \ {<<>>}

\* An entry is a directory (its name ends in a slash) or a regular file.
ZipEntries == [name : ZipNames, isDir : BOOLEAN]

ZipArchives == SeqsUpTo(ZipEntries, MaxEntries)

\* The destination directory, /t/d
destDir == <<"t", "d">>

IsPrefix(p, q) == Len(p) <= Len(q) /\ SubSeq(q, 1, Len(p)) = p

\* The directories named by a path: the path and all its ancestors.
Ancestors(p) == {SubSeq(p, 1, k) : k \in 0..Len(p)}

\* filepath.Clean on a rooted path: ".." removes the component before it, and
\* is dropped at the root.
RECURSIVE CleanPath(_, _)
CleanPath(done, rest) ==
    IF rest = <<>> THEN done
    ELSE IF Head(rest) = ".."
         THEN CleanPath(IF done = <<>> THEN <<>> ELSE SubSeq(done, 1, Len(done) - 1),
                        Tail(rest))
         ELSE CleanPath(Append(done, Head(rest)), Tail(rest))

\* filepath.Join(destDir, file.Name)
JoinPath(dir, name) == CleanPath(<<>>, dir \o name)

\* filepath.Dir(path)
DirOf(p) == IF p = <<>> THEN <<>> ELSE SubSeq(p, 1, Len(p) - 1)

\* os.MkdirAll(p): fails when p or an ancestor is a regular file; creates the
\* missing directories down to that point.
MkdirAllFails(files, p) == Ancestors(p) \cap files # {}

MkdirAllDirs(dirs, files, p) ==
    dirs \cup {q \in Ancestors(p) : Ancestors(q) \cap files = {}}

\* os.OpenFile(p, O_WRONLY|O_CREATE|O_TRUNC): fails on a directory.
OpenFileFails(dirs, p) == p \in dirs

InitZip ==
    /\ zchecked = FALSE
    /\ zarchive = <<>>
    /\ zi = 0
    /\ zdirs = Ancestors(destDir)
    /\ zfiles = {}
    /\ zret = "none"

\* zip.OpenReader(zipPath), with which both copies of extractZip begin;
\* checked tells which of the two is run: the one of artifact.go, or the one
\* with the checks of the entry paths.
OpenArchive(archive, readable, checked) ==
    /\ zret = "none"
    /\ zchecked' = checked
    /\ IF readable
       THEN /\ zarchive' = archive
            /\ zi' = 1
            /\ zret' = "running"
       ELSE /\ zret' = "error"
            /\ UNCHANGED <<zarchive, zi>>
    /\ UNCHANGED <<zdirs, zfiles>>
    /\ UNCHANGED nonZipVars

\* One iteration of the loop over reader.File in extractZip of artifact.go;
\* copied tells whether file.Open and io.Copy went through.
ExtractEntry(copied) ==
    /\ zret = "running"
    /\ ~zchecked
    /\ zi <= Len(zarchive)
    /\ LET file == zarchive[zi]
           path == JoinPath(destDir, file.name)
       IN  IF file.isDir
           THEN \* os.MkdirAll(path, file.Mode()); continue
                /\ zdirs' = MkdirAllDirs(zdirs, zfiles, path)
                /\ zi' = zi + 1
                /\ UNCHANGED <<zfiles, zret>>
           ELSE IF MkdirAllFails(zfiles, DirOf(path))
           THEN /\ zdirs' = MkdirAllDirs(zdirs, zfiles, DirOf(path))
                /\ zret' = "error"
                /\ UNCHANGED <<zfiles, zi>>
           ELSE IF OpenFileFails(MkdirAllDirs(zdirs, zfiles, DirOf(path)), path)
           THEN /\ zdirs' = MkdirAllDirs(zdirs, zfiles, DirOf(path))
                /\ zret' = "error"
                /\ UNCHANGED <<zfiles, zi>>
           ELSE /\ zdirs' = MkdirAllDirs(zdirs, zfiles, DirOf(path))
                /\ zfiles' = zfiles \cup {path}
                /\ IF copied
                   THEN zi' = zi + 1 /\ UNCHANGED zret
                   ELSE zret' = "error" /\ UNCHANGED zi
    /\ UNCHANGED <<zarchive, zchecked>>
    /\ UNCHANGED nonZipVars

\* strings.Contains(file.Name, ".."): of the components tried only ".."
\* holds two dots in a row.
ContainsDotDot(name) == \E i \in 1..Len(name) : name[i] = ".."

\* strings.HasPrefix(path, destDir + separator) || path == destDir
WithinDir(dir, path) == IsPrefix(dir, path)

\* One iteration of the loop over reader.File in the copy of extractZip with
\* the checks: an entry whose name holds ".." or whose path is not within
\* destDir ends the extraction with an error before anything is made for
\* it, and the error of os.MkdirAll for a directory entry is returned.
ExtractEntryChecked(copied) ==
    /\ zret = "running"
    /\ zchecked
    /\ zi <= Len(zarchive)
    /\ LET file == zarchive[zi]
           path == JoinPath(destDir, file.name)
       IN  IF ContainsDotDot(file.name) \/ ~WithinDir(destDir, path)
           THEN /\ zret' = "error"
                /\ UNCHANGED <<zdirs, zfiles, zi>>
           ELSE IF file.isDir
           THEN /\ zdirs' = MkdirAllDirs(zdirs, zfiles, path)
                /\ IF MkdirAllFails(zfiles, path)
                   THEN zret' = "error" /\ UNCHANGED zi
                   ELSE zi' = zi + 1 /\ UNCHANGED zret
                /\ UNCHANGED zfiles
           ELSE IF MkdirAllFails(zfiles, DirOf(path))
           THEN /\ zdirs' = MkdirAllDirs(zdirs, zfiles, DirOf(path))
                /\ zret' = "error"
                /\ UNCHANGED <<zfiles, zi>>
           ELSE IF OpenFileFails(MkdirAllDirs(zdirs, zfiles, DirOf(path)), path)
           THEN /\ zdirs' = MkdirAllDirs(zdirs, zfiles, DirOf(path))
                /\ zret' = "error"
                /\ UNCHANGED <<zfiles, zi>>
           ELSE /\ zdirs' = MkdirAllDirs(zdirs, zfiles, DirOf(path))
                /\ zfiles' = zfiles \cup {path}
                /\ IF copied
                   THEN zi' = zi + 1 /\ UNCHANGED zret
                   ELSE zret' = "error" /\ UNCHANGED zi
    /\ UNCHANGED <<zarchive, zchecked>>
    /\ UNCHANGED nonZipVars

\* The loop is through: return nil.
ExtractDone ==
    /\ zret = "running"
    /\ zi > Len(zarchive)
    /\ zret' = "nil"
    /\ UNCHANGED <<zarchive, zi, zdirs, zfiles, zchecked>>
    /\ UNCHANGED nonZipVars

(***************************************************************************)
(* The credential store: LoadCredentials and loadFromFile.                 *)
(***************************************************************************)
DirectAPIKey == "apikey"

SigV4 == "sigv4"

StoreProject == "project"

StoreHome == "home"

Stores == {StoreProject, StoreHome}

EnvNames == {"VULNETIX_API_KEY", "VULNETIX_ORG_ID", "VVD_ORG", "VVD_SECRET", "HOME"}

\* The value a variable has when it is set; each variable has its own.
EnvValue(name) ==
    CASE name = "VULNETIX_API_KEY" -> "env-key"
      [] name = "VULNETIX_ORG_ID"  -> "env-org"
      [] name = "VVD_ORG"          -> "vvd-org"
      [] name = "VVD_SECRET"       -> "vvd-secret"
      [] OTHER                     -> "/home/u"

\* The Credentials struct
Credentials(org, key, secret, method) ==
    [OrgID |-> org, APIKey |-> key, Secret |-> secret, Method |-> method]

NoCreds == Credentials("", "", "", "")

\* The credentials a file of a store can hold; each store has its own values.
StoredCreds(store) ==
    {Credentials(org, key, secret, method) :
        org \in {"", IF store = StoreProject THEN "proj-org" ELSE "home-org"},
        key \in {"", IF store = StoreProject THEN "proj-key" ELSE "home-key"},
        secret \in {"", IF store = StoreProject THEN "proj-secret" ELSE "home-secret"},
        method \in {DirectAPIKey, SigV4}}

\* A string with one byte that is not valid UTF-8, written as the Go literal.
BadSecret(store) ==
    IF store = StoreProject THEN "proj-secret\\xff" ELSE "home-secret\\xff"

\* encoding/json writes a string coerced to valid UTF-8: every invalid byte
\* becomes U+FFFD.  The result is what decoding the written string gives back.
JSONString(v) ==
    CASE v = "proj-secret\\xff" -> "proj-secret\\ufffd"
      [] v = "home-secret\\xff" -> "home-secret\\ufffd"
      [] OTHER -> v

\* json.MarshalIndent(creds): the JSON object, as a function from its keys;
\* api_key and secret are omitempty.
MarshalIndent(c) ==
    [k \in {"org_id", "method"}
            \cup (IF c.APIKey # "" THEN {"api_key"} ELSE {})
            \cup (IF c.Secret # "" THEN {"secret"} ELSE {}) |->
        CASE k = "org_id"  -> JSONString(c.OrgID)
          [] k = "api_key" -> JSONString(c.APIKey)
          [] k = "secret"  -> JSONString(c.Secret)
          [] OTHER         -> JSONString(c.Method)]

\* The value of a key of a JSON object; the zero value when the key is absent.
Field(doc, k) == IF k \in DOMAIN doc THEN doc[k] ELSE ""

\* json.Unmarshal(data, &creds) on a JSON object
Unmarshal(doc) ==
    Credentials(Field(doc, "org_id"), Field(doc, "api_key"),
                Field(doc, "secret"), Field(doc, "method"))

NoDoc == MarshalIndent(NoCreds)

\* A file is missing, is not JSON, or is a JSON object.
FileContents(store) ==
    {[state |-> "missing", doc |-> NoDoc], [state |-> "garbage", doc |-> NoDoc]}
    \cup {[state |-> "json", doc |-> MarshalIndent(c)] : c \in StoredCreds(store)}

\* The credentials SaveCredentials is called with for a store.
SaveInputs(store) ==
    StoredCreds(store)
    \cup {Credentials(org, key, BadSecret(store), method) :
            org \in {"", IF store = StoreProject THEN "proj-org" ELSE "home-org"},
            key \in {"", IF store = StoreProject THEN "proj-key" ELSE "home-key"},
            method \in {DirectAPIKey, SigV4}}

\* How the file system answers SaveCredentials: all done, os.MkdirAll fails,
\* os.WriteFile cannot open the file, or opens (truncates) it and cannot write.
SaveOutcomes == {"ok", "mkdirfail", "openfail", "writefail"}

NoSave == [kind |-> "none", store |-> "none", creds |-> NoCreds]

NoLoad == [kind |-> "none", creds |-> NoCreds]

\* storePath(store): the home path needs os.UserHomeDir, which fails when
\* HOME is empty.
storePathFails(env, store) == store = StoreHome /\ env["HOME"] = ""

\* The mutant of loadFromFile: a file without org_id is loaded.
loadFromFile_NoOrgCheck(env, files, store) ==
    IF storePathFails(env, store) THEN [err |-> TRUE, creds |-> NoCreds]
    ELSE IF files[store].state = "missing" THEN [err |-> TRUE, creds |-> NoCreds]
    ELSE IF files[store].state = "garbage" THEN [err |-> TRUE, creds |-> NoCreds]
    ELSE [err |-> FALSE, creds |-> Unmarshal(files[store].doc)]

\* loadFromFile(store): the credentials, or an error.
loadFromFile(env, files, store) ==
    IF storePathFails(env, store) THEN [err |-> TRUE, creds |-> NoCreds]
    ELSE IF files[store].state = "missing" THEN [err |-> TRUE, creds |-> NoCreds]
    ELSE IF files[store].state = "garbage" THEN [err |-> TRUE, creds |-> NoCreds]
    ELSE IF Unmarshal(files[store].doc).OrgID = "" THEN [err |-> TRUE, creds |-> NoCreds]
    ELSE [err |-> FALSE, creds |-> Unmarshal(files[store].doc)]

\* The stores whose file os.ReadFile was called on, when these were tried.
FilesRead(env, tried) == {st \in tried : ~storePathFails(env, st)}

\* Permission bits: 0700 and 0755 for a directory, 0600 and 0644 for a file.
OwnerOnlyDir == 7 * 64

SharedDir == 7 * 64 + 5 * 8 + 5

OwnerOnlyFile == 6 * 64

SharedFile == 6 * 64 + 4 * 8 + 4

NoPerm == [dir |-> 0, file |-> 0]

\* os.MkdirAll(dir, 0700): an existing directory is left as it is.
MkdirAllPerm(perm) == IF perm.dir = 0 THEN [perm EXCEPT !.dir = OwnerOnlyDir] ELSE perm

\* os.WriteFile(path, data, 0600) opens with O_WRONLY|O_CREATE|O_TRUNC: the
\* mode is used only when the file is created.
WriteFilePerm(perm) == IF perm.file = 0 THEN [perm EXCEPT !.file = OwnerOnlyFile] ELSE perm

NoRemove ==
    [kind |-> "none", tried |-> {}, failed |-> {}, named |-> {}, removed |-> {}]

InitCreds ==
    /\ cenv = [n \in EnvNames |-> ""]
    /\ cfile = [st \in Stores |-> [state |-> "missing", doc |-> NoDoc]]
    /\ cread = {}
    /\ cret = NoLoad
    /\ csave = NoSave
    /\ cperm = [st \in Stores |-> NoPerm]
    /\ crm = NoRemove

\* The environment sets or unsets a variable before the next call.
Setenv(name, set) ==
    /\ cenv[name] # (IF set THEN EnvValue(name) ELSE "")
    /\ cenv' = [cenv EXCEPT ![name] = IF set THEN EnvValue(name) ELSE ""]
    /\ cread' = {}
    /\ cret' = NoLoad
    /\ crm' = NoRemove
    /\ UNCHANGED <<cfile, csave, cperm>>
    /\ UNCHANGED nonCredVars

\* The environment puts a credentials file in place, or takes it away.
PutCredentialsFile(store, content) ==
    /\ cfile[store] # content
    /\ cfile' = [cfile EXCEPT ![store] = content]
    /\ cperm' = [cperm EXCEPT ![store] =
                    IF content.state = "missing"
                    THEN [dir |-> cperm[store].dir, file |-> 0]
                    ELSE [dir |-> IF cperm[store].dir = 0 THEN SharedDir
                                  ELSE cperm[store].dir,
                          file |-> IF cperm[store].file = 0 THEN SharedFile
                                   ELSE cperm[store].file]]
    /\ cread' = {}
    /\ cret' = NoLoad
    /\ csave' = NoSave
    /\ crm' = NoRemove
    /\ UNCHANGED cenv
    /\ UNCHANGED nonCredVars

\* The environment changes the permission bits of a store's directory, and
\* of its file when there is one.
Chmod(store, dirMode, fileMode) ==
    /\ cperm[store].dir # 0
    /\ cperm' = [cperm EXCEPT ![store] =
                    [dir |-> dirMode,
                     file |-> IF cperm[store].file = 0 THEN 0 ELSE fileMode]]
    /\ cperm'[store] # cperm[store]
    /\ cread' = {}
    /\ cret' = NoLoad
    /\ csave' = NoSave
    /\ crm' = NoRemove
    /\ UNCHANGED <<cenv, cfile>>
    /\ UNCHANGED nonCredVars

\* The environment makes a store's directory, as mkdir does by default.
Mkdir(store) ==
    /\ cperm[store].dir = 0
    /\ cperm' = [cperm EXCEPT ![store] = [dir |-> SharedDir, file |-> 0]]
    /\ cread' = {}
    /\ cret' = NoLoad
    /\ csave' = NoSave
    /\ crm' = NoRemove
    /\ UNCHANGED <<cenv, cfile>>
    /\ UNCHANGED nonCredVars

\* SaveCredentials(creds, store)
SaveCredentials(creds, store, outcome) ==
    /\ IF storePathFails(cenv, store) \/ outcome = "mkdirfail"
       THEN /\ csave' = [kind |-> "error", store |-> store, creds |-> NoCreds]
            /\ UNCHANGED <<cfile, cperm>>
       ELSE IF outcome = "openfail"
       THEN /\ csave' = [kind |-> "error", store |-> store, creds |-> NoCreds]
            /\ cperm' = [cperm EXCEPT ![store] = MkdirAllPerm(cperm[store])]
            /\ UNCHANGED cfile
       ELSE IF outcome = "writefail"
       THEN /\ csave' = [kind |-> "error", store |-> store, creds |-> NoCreds]
            /\ cfile' = [cfile EXCEPT ![store] = [state |-> "garbage", doc |-> NoDoc]]
            /\ cperm' = [cperm EXCEPT
                            ![store] = WriteFilePerm(MkdirAllPerm(cperm[store]))]
       ELSE /\ csave' = [kind |-> "nil", store |-> store, creds |-> creds]
            /\ cfile' = [cfile EXCEPT
                            ![store] = [state |-> "json", doc |-> MarshalIndent(creds)]]
            /\ cperm' = [cperm EXCEPT
                            ![store] = WriteFilePerm(MkdirAllPerm(cperm[store]))]
    /\ crm' = NoRemove
    /\ cread' = {}
    /\ cret' = NoLoad
    /\ UNCHANGED cenv
    /\ UNCHANGED nonCredVars

\* What os.Remove(path) does to one store: "ok" removes the file, or finds
\* none (an error os.IsNotExist accepts); "fail" is any other error, and the
\* file stays as it was.
RemoveOutcomes == {"ok", "fail"}

\* The stores RemoveCredentials calls os.Remove for: those storePath gives a
\* path for.
RemoveTried(env) == {st \in Stores : ~storePathFails(env, st)}

\* lastErr after the loop over StoreHome, StoreProject: the error of the last
\* store whose removal failed.
LastErr(failed) ==
    IF StoreProject \in failed THEN {StoreProject}
    ELSE IF StoreHome \in failed THEN {StoreHome}
    ELSE {}

\* A variant that stops at the first store whose removal fails.
RemoveCredentials_StopAtFirst(out) ==
    LET tried == IF ~storePathFails(cenv, StoreHome) /\ out[StoreHome] = "fail"
                 THEN {StoreHome} ELSE RemoveTried(cenv)
        failed == {st \in tried : out[st] = "fail"}
    IN  /\ cfile' = [st \in Stores |->
                        IF st \in tried \ failed
                        THEN [state |-> "missing", doc |-> NoDoc] ELSE cfile[st]]
        /\ cperm' = [st \in Stores |->
                        IF st \in tried \ failed
                        THEN [cperm[st] EXCEPT !.file = 0] ELSE cperm[st]]
        /\ crm' = [kind |-> IF failed = {} THEN "nil" ELSE "error",
                   tried |-> tried, failed |-> failed, named |-> LastErr(failed),
                   removed |-> {st \in tried \ failed : cfile[st].state # "missing"}]
        /\ cread' = {}
        /\ cret' = NoLoad
        /\ csave' = NoSave
        /\ UNCHANGED cenv
        /\ UNCHANGED nonCredVars

\* RemoveCredentials(): out says how os.Remove goes for each store.
RemoveCredentials(out) ==
    LET tried == RemoveTried(cenv)
        failed == {st \in tried : out[st] = "fail"}
    IN  /\ cfile' = [st \in Stores |->
                        IF st \in tried \ failed
                        THEN [state |-> "missing", doc |-> NoDoc] ELSE cfile[st]]
        /\ cperm' = [st \in Stores |->
                        IF st \in tried \ failed
                        THEN [cperm[st] EXCEPT !.file = 0] ELSE cperm[st]]
        /\ crm' = [kind |-> IF failed = {} THEN "nil" ELSE "error",
                   tried |-> tried, failed |-> failed, named |-> LastErr(failed),
                   removed |-> {st \in tried \ failed : cfile[st].state # "missing"}]
        /\ cread' = {}
        /\ cret' = NoLoad
        /\ csave' = NoSave
        /\ UNCHANGED cenv
        /\ UNCHANGED nonCredVars

\* The mutant of LoadCredentials: one variable of the first pair is enough.
LoadCredentials_EitherOfPair ==
    /\ cret = NoLoad
    /\ LET apiKey == cenv["VULNETIX_API_KEY"]
           orgID == cenv["VULNETIX_ORG_ID"]
           vvdOrg == cenv["VVD_ORG"]
           vvdSecret == cenv["VVD_SECRET"]
           project == loadFromFile(cenv, cfile, StoreProject)
           home == loadFromFile(cenv, cfile, StoreHome)
       IN  IF apiKey # "" \/ orgID # ""
           THEN /\ cret' = [kind |-> "creds",
                            creds |-> Credentials(orgID, apiKey, "", DirectAPIKey)]
                /\ cread' = {}
           ELSE IF vvdOrg # "" /\ vvdSecret # ""
           THEN /\ cret' = [kind |-> "creds",
                            creds |-> Credentials(vvdOrg, "", vvdSecret, SigV4)]
                /\ cread' = {}
           ELSE IF ~project.err
           THEN /\ cret' = [kind |-> "creds", creds |-> project.creds]
                /\ cread' = FilesRead(cenv, {StoreProject})
           ELSE IF ~home.err
           THEN /\ cret' = [kind |-> "creds", creds |-> home.creds]
                /\ cread' = FilesRead(cenv, {StoreProject, StoreHome})
           ELSE /\ cret' = [kind |-> "notfound", creds |-> NoCreds]
                /\ cread' = FilesRead(cenv, {StoreProject, StoreHome})
    /\ UNCHANGED <<cenv, cfile, csave, cperm, crm>>
    /\ UNCHANGED nonCredVars

\* LoadCredentials()
LoadCredentials ==
    /\ cret = NoLoad
    /\ LET apiKey == cenv["VULNETIX_API_KEY"]
           orgID == cenv["VULNETIX_ORG_ID"]
           vvdOrg == cenv["VVD_ORG"]
           vvdSecret == cenv["VVD_SECRET"]
           project == loadFromFile(cenv, cfile, StoreProject)
           home == loadFromFile(cenv, cfile, StoreHome)
       IN  IF apiKey # "" /\ orgID # ""
           THEN /\ cret' = [kind |-> "creds",
                            creds |-> Credentials(orgID, apiKey, "", DirectAPIKey)]
                /\ cread' = {}
           ELSE IF vvdOrg # "" /\ vvdSecret # ""
           THEN /\ cret' = [kind |-> "creds",
                            creds |-> Credentials(vvdOrg, "", vvdSecret, SigV4)]
                /\ cread' = {}
           ELSE IF ~project.err
           THEN /\ cret' = [kind |-> "creds", creds |-> project.creds]
                /\ cread' = FilesRead(cenv, {StoreProject})
           ELSE IF ~home.err
           THEN /\ cret' = [kind |-> "creds", creds |-> home.creds]
                /\ cread' = FilesRead(cenv, {StoreProject, StoreHome})
           ELSE /\ cret' = [kind |-> "notfound", creds |-> NoCreds]
                /\ cread' = FilesRead(cenv, {StoreProject, StoreHome})
    /\ UNCHANGED <<cenv, cfile, csave, cperm, crm>>
    /\ UNCHANGED nonCredVars

(***************************************************************************)
(* The batch upload command: runGHAUpload.                                 *)
(***************************************************************************)
ArtifactNames == {"sbom", "sarif"}

\* What ListArtifacts can return: an error, or a list of artifacts.
ArtifactLists == SeqsUpTo(ArtifactNames, MaxArtifacts)

\* The transaction ids the server can return.
ServerTxnIds == {"txn-1", "txn-2"}

NoRun == [kind |-> "none", uploaded |-> 0, total |-> 0]

GHACall(kind, i, ok, txn) == [kind |-> kind, i |-> i, ok |-> ok, txn |-> txn]

InitGHA ==
    /\ gpc = "start"
    /\ gartifacts = <<>>
    /\ gtxn = "none"
    /\ gi = 0
    /\ glog = <<>>
    /\ gfailed = {}
    /\ gresults = <<>>
    /\ gdirs = {}
    /\ gdefer = <<>>
    /\ gret = NoRun

\* A variant of GHAList that goes on with an empty list.
GHAList_NoEmptyCheck(valid, listed, artifacts) ==
    /\ gpc = "start"
    /\ IF ~valid
       THEN /\ gpc' = "done"
            /\ gret' = [kind |-> "error", uploaded |-> 0, total |-> 0]
            /\ UNCHANGED <<gartifacts, glog>>
       ELSE /\ glog' = Append(glog, GHACall("list", 0, listed, "none"))
            /\ IF ~listed
               THEN /\ gpc' = "done"
                    /\ gret' = [kind |-> "error", uploaded |-> 0, total |-> 0]
                    /\ UNCHANGED gartifacts
               ELSE /\ gpc' = "initiate"
                    /\ gartifacts' = artifacts
                    /\ UNCHANGED gret
    /\ UNCHANGED <<gtxn, gi, gfailed, gresults, gdirs, gdefer>>
    /\ UNCHANGED nonGhaVars

\* The checks of the flags and of the environment, then ListArtifacts.
GHAList(valid, listed, artifacts) ==
    /\ gpc = "start"
    /\ IF ~valid
       THEN /\ gpc' = "done"
            /\ gret' = [kind |-> "error", uploaded |-> 0, total |-> 0]
            /\ UNCHANGED <<gartifacts, glog>>
       ELSE /\ glog' = Append(glog, GHACall("list", 0, listed, "none"))
            /\ IF ~listed
               THEN /\ gpc' = "done"
                    /\ gret' = [kind |-> "error", uploaded |-> 0, total |-> 0]
                    /\ UNCHANGED gartifacts
               ELSE IF Len(artifacts) = 0
               THEN /\ gpc' = "done"
                    /\ gret' = [kind |-> "nil", uploaded |-> 0, total |-> 0]
                    /\ UNCHANGED gartifacts
               ELSE /\ gpc' = "initiate"
                    /\ gartifacts' = artifacts
                    /\ UNCHANGED gret
    /\ UNCHANGED <<gtxn, gi, gfailed, gresults, gdirs, gdefer>>
    /\ UNCHANGED nonGhaVars

\* A variant of GHAInitiate that enters the loop whatever the outcome.
GHAInitiate_ContinueOnError(ok, txn) ==
    /\ gpc = "initiate"
    /\ glog' = Append(glog, GHACall("initiate", 0, ok, "none"))
    /\ gtxn' = IF ok THEN txn ELSE gtxn
    /\ gi' = 1
    /\ gpc' = "download"
    /\ UNCHANGED <<gartifacts, gfailed, gresults, gdirs, gdefer, gret>>
    /\ UNCHANGED nonGhaVars

\* uploader.InitiateTransaction(metadata, artifactNames)
GHAInitiate(ok, txn) ==
    /\ gpc = "initiate"
    /\ glog' = Append(glog, GHACall("initiate", 0, ok, "none"))
    /\ IF ok
       THEN /\ gtxn' = txn
            /\ gi' = 1
            /\ gpc' = "download"
            /\ UNCHANGED gret
       ELSE /\ gpc' = "done"
            /\ gret' = [kind |-> "error", uploaded |-> 0, total |-> 0]
            /\ UNCHANGED <<gtxn, gi>>
    /\ UNCHANGED <<gartifacts, gfailed, gresults, gdirs, gdefer>>
    /\ UNCHANGED nonGhaVars

\* The mutant of GHADownload: a failed download ends the command.
GHADownload_Abort(ok) ==
    /\ gpc = "download"
    /\ gi <= Len(gartifacts)
    /\ glog' = Append(glog, GHACall("download", gi, ok, "none"))
    /\ IF ok
       THEN /\ gdirs' = gdirs \cup {gi}
            /\ gdefer' = Append(gdefer, gi)
            /\ gpc' = "upload"
            /\ UNCHANGED <<gi, gfailed, gret>>
       ELSE /\ gfailed' = gfailed \cup {[i |-> gi, phase |-> "download"]}
            /\ gpc' = "done"
            /\ gret' = [kind |-> "error", uploaded |-> Len(gresults),
                        total |-> Len(gartifacts)]
            /\ UNCHANGED <<gi, gdirs, gdefer>>
    /\ UNCHANGED <<gartifacts, gtxn, gresults>>
    /\ UNCHANGED nonGhaVars

\* The loop body up to the download: collector.DownloadArtifact(ctx, artifact),
\* which leaves a directory only when it succeeds; then the deferred removal
\* is registered.
GHADownload(ok) ==
    /\ gpc = "download"
    /\ gi <= Len(gartifacts)
    /\ glog' = Append(glog, GHACall("download", gi, ok, "none"))
    /\ IF ok
       THEN /\ gdirs' = gdirs \cup {gi}
            /\ gdefer' = Append(gdefer, gi)
            /\ gpc' = "upload"
            /\ UNCHANGED <<gi, gfailed>>
       ELSE /\ gfailed' = gfailed \cup {[i |-> gi, phase |-> "download"]}
            /\ gi' = gi + 1
            /\ UNCHANGED <<gpc, gdirs, gdefer>>
    /\ UNCHANGED <<gartifacts, gtxn, gresults, gret>>
    /\ UNCHANGED nonGhaVars

\* The rest of the loop body: uploader.UploadArtifact(txnResp.TxnID, name, dir)
GHAUpload(ok) ==
    /\ gpc = "upload"
    /\ glog' = Append(glog, GHACall("upload", gi, ok, gtxn))
    /\ IF ok
       THEN /\ gresults' = Append(gresults, gi)
            /\ UNCHANGED gfailed
       ELSE /\ gfailed' = gfailed \cup {[i |-> gi, phase |-> "upload"]}
            /\ UNCHANGED gresults
    /\ gi' = gi + 1
    /\ gpc' = "download"
    /\ UNCHANGED <<gartifacts, gtxn, gdirs, gdefer, gret>>
    /\ UNCHANGED nonGhaVars

\* After the loop: the summary is printed, nil is returned, and the deferred
\* os.RemoveAll calls run.
GHAReturn ==
    /\ gpc = "download"
    /\ gi > Len(gartifacts)
    /\ gpc' = "done"
    /\ gret' = [kind |-> "nil", uploaded |-> Len(gresults), total |-> Len(gartifacts)]
    /\ gdirs' = gdirs \ {gdefer[k] : k \in 1..Len(gdefer)}
    /\ gdefer' = <<>>
    /\ UNCHANGED <<gartifacts, gtxn, gi, glog, gfailed, gresults>>
    /\ UNCHANGED nonGhaVars

(***************************************************************************)
(* Artifact retrieval: ArtifactCollector.DownloadArtifact.                 *)
(***************************************************************************)
\* The names an artifact can declare, as sequences of code points: "sbom",
\* "my report", "a/b", "../a", "..." and the empty name.
DownloadNames ==
    {<<115, 98, 111, 109>>, <<109, 121, 32, 114, 101, 112, 111, 114, 116>>,
     <<97, 47, 98>>, <<46, 46, 47, 97>>, <<46, 46, 46>>, <<>>}

\* maxArtifactSize = 1024 * 1024 * 1024
maxArtifactSize == 1024 * 1024 * 1024

\* The sizes in bytes an artifact can declare.
DownloadSizes == {0, maxArtifactSize, maxArtifactSize + 1}

Artifacts == [Name : DownloadNames, SizeInBytes : DownloadSizes]

\* The part of the os.MkdirTemp pattern "artifact-%s-*" that comes from the
\* artifact in DownloadArtifact of artifact.go: artifact.Name as it is.
TempDirComponent(name) == name

\* os.MkdirTemp rejects a pattern that holds a path separator.
PatternHasSeparator(name) == \E i \in 1..Len(name) : name[i] = 47

\* A character the pattern [^a-zA-Z0-9\-_\.] of artifactNameRegex does not
\* match.
InNameClass(ch) ==
    \/ ch \in 97..122
    \/ ch \in 65..90
    \/ ch \in 48..57
    \/ ch \in {45, 95, 46}

\* strings.TrimLeft(text, ".")
RECURSIVE TrimLeftDots(_)
TrimLeftDots(text) ==
    IF text # <<>> /\ Head(text) = 46 THEN TrimLeftDots(Tail(text)) ELSE text

\* sanitizeArtifactName(name): every character the pattern matches becomes
\* '_', then the leading dots are removed.
sanitizeArtifactName(name) ==
    TrimLeftDots([i \in 1..Len(name) |->
                     IF InNameClass(name[i]) THEN name[i] ELSE 95])

\* The part of the pattern that comes from the artifact in the copy of
\* DownloadArtifact that sanitizes: the sanitized name, or "artifact" when
\* nothing of it is left.
SanitizedDirComponent(name) ==
    IF sanitizeArtifactName(name) = <<>>
    THEN <<97, 114, 116, 105, 102, 97, 99, 116>>
    ELSE sanitizeArtifactName(name)

\* How the download request can go: http.NewRequestWithContext fails, the
\* transport fails, the status is not 200, or 200.
RequestOutcomes == {"newrequest", "transport", "status", "ok"}

\* How saving the body can go: os.Create fails, io.Copy fails, or saved.
SaveBodyOutcomes == {"create", "copy", "ok"}

\* What extractZip can have written before it returned: entries in the
\* destination directory, entries outside it.
ExtractWrites == SUBSET {"inside", "outside"}

NoDownload == [kind |-> "none", cause |-> "none", wrote |-> {}]

InitDownload ==
    /\ dpc = "start"
    /\ dart = [Name |-> <<115, 98, 111, 109>>, SizeInBytes |-> 0]
    /\ dchecked = FALSE
    /\ dtmp = FALSE
    /\ dinside = {}
    /\ doutside = FALSE
    /\ dret = NoDownload

\* DownloadArtifact of artifact.go up to the request: the token check and
\* os.MkdirTemp.
DownloadArtifact(artifact, hasToken, mkdirOK) ==
    /\ dpc = "start"
    /\ dart' = artifact
    /\ dchecked' = FALSE
    /\ IF ~hasToken
       THEN /\ dret' = [kind |-> "error", cause |-> "token", wrote |-> {}]
            /\ dpc' = "done"
            /\ UNCHANGED dtmp
       ELSE IF ~mkdirOK \/ PatternHasSeparator(artifact.Name)
       THEN /\ dret' = [kind |-> "error", cause |-> "mkdirtemp", wrote |-> {}]
            /\ dpc' = "done"
            /\ UNCHANGED dtmp
       ELSE /\ dtmp' = TRUE
            /\ dpc' = "created"
            /\ UNCHANGED dret
    /\ UNCHANGED <<dinside, doutside>>
    /\ UNCHANGED nonDlVars

\* The copy of DownloadArtifact with the size check, up to the request: the
\* token check, the check of the declared size against maxArtifactSize, the
\* sanitized name and os.MkdirTemp.
DownloadArtifactChecked(artifact, hasToken, mkdirOK) ==
    /\ dpc = "start"
    /\ dart' = artifact
    /\ dchecked' = TRUE
    /\ IF ~hasToken
       THEN /\ dret' = [kind |-> "error", cause |-> "token", wrote |-> {}]
            /\ dpc' = "done"
            /\ UNCHANGED dtmp
       ELSE IF artifact.SizeInBytes > maxArtifactSize
       THEN /\ dret' = [kind |-> "error", cause |-> "size", wrote |-> {}]
            /\ dpc' = "done"
            /\ UNCHANGED dtmp
       ELSE IF ~mkdirOK \/ PatternHasSeparator(SanitizedDirComponent(artifact.Name))
       THEN /\ dret' = [kind |-> "error", cause |-> "mkdirtemp", wrote |-> {}]
            /\ dpc' = "done"
            /\ UNCHANGED dtmp
       ELSE /\ dtmp' = TRUE
            /\ dpc' = "created"
            /\ UNCHANGED dret
    /\ UNCHANGED <<dinside, doutside>>
    /\ UNCHANGED nonDlVars

\* The download request: on every failure os.RemoveAll(tmpDir) and return.
DownloadRequest(outcome) ==
    /\ dpc = "created"
    /\ IF outcome = "ok"
       THEN /\ dpc' = "responded"
            /\ UNCHANGED <<dtmp, dinside, dret>>
       ELSE /\ dtmp' = FALSE
            /\ dinside' = {}
            /\ dret' = [kind |-> "error", cause |-> outcome, wrote |-> {}]
            /\ dpc' = "done"
    /\ UNCHANGED <<dart, doutside, dchecked>>
    /\ UNCHANGED nonDlVars

\* Saving the body to artifact.zip in the temporary directory.
DownloadSave(outcome) ==
    /\ dpc = "responded"
    /\ IF outcome = "ok"
       THEN /\ dinside' = dinside \cup {"artifact.zip"}
            /\ dpc' = "saved"
            /\ UNCHANGED <<dtmp, dret>>
       ELSE /\ dtmp' = FALSE
            /\ dinside' = {}
            /\ dret' = [kind |-> "error", cause |-> outcome, wrote |-> {}]
            /\ dpc' = "done"
    /\ UNCHANGED <<dart, doutside, dchecked>>
    /\ UNCHANGED nonDlVars

\* The mutant of DownloadExtract: a failed extraction leaves the directory.
DownloadExtract_NoCleanup(extracted, wrote) ==
    /\ dpc = "saved"
    /\ dchecked => "outside" \notin wrote
    /\ doutside' = ("outside" \in wrote)
    /\ IF extracted
       THEN /\ dinside' = (dinside \cup (wrote \cap {"inside"})) \ {"artifact.zip"}
            /\ dret' = [kind |-> "path", cause |-> "none", wrote |-> wrote]
            /\ UNCHANGED dtmp
       ELSE /\ dinside' = dinside \cup (wrote \cap {"inside"})
            /\ dret' = [kind |-> "error", cause |-> "extract", wrote |-> wrote]
            /\ UNCHANGED dtmp
    /\ dpc' = "done"
    /\ UNCHANGED <<dart, dchecked>>
    /\ UNCHANGED nonDlVars

\* extractZip(zipPath, tmpDir), then os.RemoveAll(tmpDir) when it failed, or
\* os.Remove(zipPath) and return tmpDir when it returned nil.  The extractZip
\* of the copy with the checks writes nothing outside the directory.
DownloadExtract(extracted, wrote) ==
    /\ dpc = "saved"
    /\ dchecked => "outside" \notin wrote
    /\ doutside' = ("outside" \in wrote)
    /\ IF extracted
       THEN /\ dinside' = (dinside \cup (wrote \cap {"inside"})) \ {"artifact.zip"}
            /\ dret' = [kind |-> "path", cause |-> "none", wrote |-> wrote]
            /\ UNCHANGED dtmp
       ELSE /\ dinside' = {}
            /\ dtmp' = FALSE
            /\ dret' = [kind |-> "error", cause |-> "extract", wrote |-> wrote]
    /\ dpc' = "done"
    /\ UNCHANGED <<dart, dchecked>>
    /\ UNCHANGED nonDlVars

(***************************************************************************)
(* Rate-limit headers: parseRateLimitHeaders.                              *)
(***************************************************************************)
RateLimitHeaders ==
    {"RateLimit-MinuteLimit", "RateLimit-Remaining", "RateLimit-Reset",
     "RateLimit-WeekLimit", "RateLimit-WeekRemaining", "RateLimit-WeekReset"}

\* The values a header can carry; "" is what Header.Get gives for an absent
\* header.
HeaderValues == {"", "soon", "0", "45"}

AllHeaders == [RateLimitHeaders -> HeaderValues]

\* strconv.Atoi
Atoi(v) ==
    CASE v = "45" -> [err |-> FALSE, n |-> 45]
      [] v = "0"  -> [err |-> FALSE, n |-> 0]
      [] OTHER    -> [err |-> TRUE, n |-> 0]

\* The mutant of HeaderField: a header that is not an integer counts as 0.
HeaderField_Lenient(headers, header) ==
    IF headers[header] # ""
    THEN [found |-> TRUE, n |-> Atoi(headers[header]).n]
    ELSE [found |-> FALSE, n |-> 0]

\* One turn of the loop over headerMap: the field the header sets, if any.
HeaderField(headers, header) ==
    IF headers[header] # "" /\ ~Atoi(headers[header]).err
    THEN [found |-> TRUE, n |-> Atoi(headers[header]).n]
    ELSE [found |-> FALSE, n |-> 0]

\* The nil *RateLimitInfo
NilRateLimit ==
    [nil |-> TRUE, MinuteLimit |-> 0, Remaining |-> 0, Reset |-> 0,
     WeekLimit |-> 0, WeekRemaining |-> 0, WeekReset |-> 0, Present |-> FALSE]

\* parseRateLimitHeaders(resp)
parseRateLimitHeaders(headers) ==
    IF \A h \in RateLimitHeaders : ~HeaderField(headers, h).found
    THEN NilRateLimit
    ELSE [nil |-> FALSE,
          MinuteLimit   |-> HeaderField(headers, "RateLimit-MinuteLimit").n,
          Remaining     |-> HeaderField(headers, "RateLimit-Remaining").n,
          Reset         |-> HeaderField(headers, "RateLimit-Reset").n,
          WeekLimit     |-> HeaderField(headers, "RateLimit-WeekLimit").n,
          WeekRemaining |-> HeaderField(headers, "RateLimit-WeekRemaining").n,
          WeekReset     |-> HeaderField(headers, "RateLimit-WeekReset").n,
          Present       |-> TRUE]

NoHeaders == [h \in RateLimitHeaders |-> ""]

InitRate ==
    /\ hin = NoHeaders
    /\ hout = [called |-> FALSE, info |-> NilRateLimit]

\* A call of parseRateLimitHeaders on a response with these headers.
ParseRateLimit(headers) ==
    /\ ~hout.called
    /\ hin' = headers
    /\ hout' = [called |-> TRUE, info |-> parseRateLimitHeaders(headers)]
    /\ UNCHANGED nonRateVars

(***************************************************************************)
(* The authenticated client: Client.DoRequest.                             *)
(***************************************************************************)
\* The credentials a client is made from.
ClientCreds ==
    {Credentials("org-1", "key-1", "", DirectAPIKey),
     Credentials("org-1", "", "secret-1", SigV4),
     Credentials("org-1", "", "secret-1", "")}

NoClient == [AuthMethod |-> "none", OrgID |-> "", APIKey |-> "", SecretKey |-> ""]

\* The Authorization header values
NoAuth == [scheme |-> "none", org |-> "", key |-> "", tok |-> 0]

ApiKeyAuth(org, key) == [scheme |-> "ApiKey", org |-> org, key |-> key, tok |-> 0]

BearerAuth(tok) == [scheme |-> "Bearer", org |-> "", key |-> "", tok |-> tok]

NoApiReq == [sent |-> FALSE, auth |-> NoAuth]

\* Response statuses on both sides of 400.
Statuses == {200, 204, 399, 400, 401, 429, 500}

\* Response bodies: an error envelope, an empty JSON object, JSON that is not
\* an object, text that is not JSON, nothing.
Bodies ==
    {"{\"success\":false,\"error\":\"quota\",\"details\":\"weekly\"}", "{}", "[1]",
     "upstream timeout", ""}

\* json.Unmarshal(responseBody, &errResp)
UnmarshalError(body) ==
    CASE body = "{\"success\":false,\"error\":\"quota\",\"details\":\"weekly\"}" ->
            [err |-> FALSE, Error |-> "quota", Details |-> "weekly"]
      [] body = "{}" -> [err |-> FALSE, Error |-> "", Details |-> ""]
      [] OTHER -> [err |-> TRUE, Error |-> "", Details |-> ""]

\* The rate-limit headers a response to an API request can carry.
ResponseHeaders ==
    {NoHeaders,
     [NoHeaders EXCEPT !["RateLimit-Remaining"] = "45"],
     [NoHeaders EXCEPT !["RateLimit-Reset"] = "soon"],
     [h \in RateLimitHeaders |-> "45"]}

\* How the token exchange inside GetToken goes, when one is made.
Exchanges == [ok : {TRUE}, life : Lifetimes] \cup {[ok |-> FALSE, life |-> 0]}

NoReturn ==
    [kind |-> "none", cause |-> "none", status |-> 0, body |-> "", Error |-> "",
     Details |-> "", raw |-> ""]

NoResponse == [transport |-> FALSE, read |-> FALSE, status |-> 0, body |-> ""]

ErrorReturn(cause) == [NoReturn EXCEPT !.kind = "error", !.cause = cause]

\* The goroutine whose DoRequest calls are followed step by step, as a
\* caller of GetToken.
DoCaller == 1

\* The other goroutines that call DoRequest on the same Client.
OtherCallers == Callers \ {DoCaller}

InitDo ==
    /\ opc = [c \in OtherCallers |-> "idle"]
    /\ rclient = NoClient
    /\ rpc = "new"
    /\ rcalls = 0
    /\ rreq = NoApiReq
    /\ rsrc = "none"
    /\ rlast = NilRateLimit
    /\ rret = NoReturn
    /\ rresp = NoResponse
    /\ rdo = 0

\* NewClientFromCredentials(creds)
NewClientFromCredentials(creds) ==
    /\ rpc = "new"
    /\ rclient' = [AuthMethod |-> creds.Method, OrgID |-> creds.OrgID,
                   APIKey |-> creds.APIKey, SecretKey |-> creds.Secret]
    /\ rpc' = "idle"
    /\ UNCHANGED <<rcalls, rreq, rsrc, rlast, rret, rresp, rdo>>
    /\ UNCHANGED tokVars
    /\ UNCHANGED opc
    /\ UNCHANGED nonDoVars

\* A variant of DoRequest in which every method goes through GetToken.
DoRequest_AlwaysBearer(built) ==
    /\ rpc \in {"idle", "done"}
    /\ rcalls < MaxRequests
    /\ rcalls' = rcalls + 1
    /\ rsrc' = "none"
    /\ IF ~built
       THEN /\ rret' = ErrorReturn("build")
            /\ rpc' = "done"
            /\ rreq' = NoApiReq
            /\ UNCHANGED tokVars
       ELSE /\ GetTokenEnter(DoCaller)
            /\ rreq' = NoApiReq
            /\ rret' = NoReturn
            /\ rpc' = "token"
    /\ rresp' = NoResponse
    /\ rdo' = (IF rreq'.sent THEN 1 ELSE 0)
    /\ UNCHANGED <<rclient, rlast>>
    /\ UNCHANGED opc
    /\ UNCHANGED nonDoVars

\* DoRequest up to the Authorization header: the request is built; with
\* apikey the header is set and the request is sent (HTTPClient.Do); with any
\* other method c.GetToken() is called, which begins with tokenMutex.RLock().
DoRequest(built) ==
    /\ rpc \in {"idle", "done"}
    /\ rcalls < MaxRequests
    /\ rcalls' = rcalls + 1
    /\ rsrc' = "none"
    /\ IF ~built
       THEN /\ rret' = ErrorReturn("build")
            /\ rpc' = "done"
            /\ rreq' = NoApiReq
            /\ UNCHANGED tokVars
       ELSE IF rclient.AuthMethod = DirectAPIKey
       THEN /\ rreq' = [sent |-> TRUE, auth |-> ApiKeyAuth(rclient.OrgID, rclient.APIKey)]
            /\ rret' = NoReturn
            /\ rpc' = "sent"
            /\ UNCHANGED tokVars
       ELSE /\ GetTokenEnter(DoCaller)
            /\ rreq' = NoApiReq
            /\ rret' = NoReturn
            /\ rpc' = "token"
    /\ rresp' = NoResponse
    /\ rdo' = (IF rreq'.sent THEN 1 ELSE 0)
    /\ UNCHANGED <<rclient, rlast>>
    /\ UNCHANGED opc
    /\ UNCHANGED nonDoVars

\* A variant that sends the request without a token when GetToken fails.
DoRequestSend_WithoutToken ==
    /\ rpc = "token"
    /\ pc[DoCaller] = "done"
    /\ rreq' = [sent |-> TRUE,
                auth |-> IF ret[DoCaller].kind = "error" THEN NoAuth
                         ELSE BearerAuth(ret[DoCaller].tok)]
    /\ rsrc' = (IF ret[DoCaller].kind = "error" THEN "none" ELSE ret[DoCaller].src)
    /\ rpc' = "sent"
    /\ rdo' = 1
    /\ UNCHANGED <<rclient, rcalls, rlast, rret, rresp>>
    /\ UNCHANGED tokVars
    /\ UNCHANGED opc
    /\ UNCHANGED nonDoVars

\* DoRequest from the return of c.GetToken() to HTTPClient.Do: the error of
\* GetToken is returned; with a token the Authorization header is set to
\* "Bearer <token>" and the request is sent.
DoRequestSend ==
    /\ rpc = "token"
    /\ pc[DoCaller] = "done"
    /\ IF ret[DoCaller].kind = "error"
       THEN /\ rret' = ErrorReturn("token")
            /\ rpc' = "done"
            /\ UNCHANGED <<rreq, rsrc, rdo>>
       ELSE /\ rreq' = [sent |-> TRUE, auth |-> BearerAuth(ret[DoCaller].tok)]
            /\ rsrc' = ret[DoCaller].src
            /\ rpc' = "sent"
            /\ rdo' = 1
            /\ UNCHANGED rret
    /\ UNCHANGED <<rclient, rcalls, rlast, rresp>>
    /\ UNCHANGED tokVars
    /\ UNCHANGED opc
    /\ UNCHANGED nonDoVars

\* DoRequest of another goroutine on the same Client, up to the
\* Authorization header: with apikey the request is sent, with any other
\* method c.GetToken() is called.
OtherDoRequest(c) ==
    /\ c \in OtherCallers
    /\ rpc # "new"
    /\ opc[c] = "idle"
    /\ IF rclient.AuthMethod = DirectAPIKey
       THEN /\ opc' = [opc EXCEPT ![c] = "sent"]
            /\ UNCHANGED tokVars
       ELSE /\ GetTokenEnter(c)
            /\ opc' = [opc EXCEPT ![c] = "token"]
    /\ UNCHANGED <<rclient, rpc, rcalls, rreq, rsrc, rlast, rret, rresp, rdo>>
    /\ UNCHANGED nonDoVars

\* DoRequest of another goroutine from the return of c.GetToken() to
\* HTTPClient.Do: it returns the error of GetToken, or sends its request.
OtherDoRequestSend(c) ==
    /\ c \in OtherCallers
    /\ opc[c] = "token"
    /\ pc[c] = "done"
    /\ opc' = [opc EXCEPT ![c] = IF ret[c].kind = "error" THEN "idle" ELSE "sent"]
    /\ UNCHANGED <<rclient, rpc, rcalls, rreq, rsrc, rlast, rret, rresp, rdo>>
    /\ UNCHANGED tokVars
    /\ UNCHANGED nonDoVars

\* DoRequest of another goroutine from HTTPClient.Do on: when a response
\* came, c.LastRateLimit = parseRateLimitHeaders(resp) is written to the
\* field the goroutines share, under no lock; what follows (the body, the
\* status check, the return) touches nothing shared.
OtherDoRequestResponse(c, answered, headers) ==
    /\ c \in OtherCallers
    /\ opc[c] = "sent"
    /\ opc' = [opc EXCEPT ![c] = "idle"]
    /\ rlast' = (IF answered THEN parseRateLimitHeaders(headers) ELSE rlast)
    /\ UNCHANGED <<rclient, rpc, rcalls, rreq, rsrc, rret, rresp, rdo>>
    /\ UNCHANGED tokVars
    /\ UNCHANGED nonDoVars

\* The mutant of DoRequestResult: the limit is 500.
DoRequestResult_ServerErrorsOnly(resp) ==
    IF resp.status >= 500
    THEN IF ~UnmarshalError(resp.body).err
         THEN [NoReturn EXCEPT !.kind = "error", !.cause = "api", !.status = resp.status,
                               !.Error = UnmarshalError(resp.body).Error,
                               !.Details = UnmarshalError(resp.body).Details]
         ELSE [NoReturn EXCEPT !.kind = "error", !.cause = "api", !.status = resp.status,
                               !.raw = resp.body]
    ELSE [NoReturn EXCEPT !.kind = "body", !.body = resp.body]

\* The end of DoRequest, once the body was read: the status check.
DoRequestResult(resp) ==
    IF resp.status >= 400
    THEN IF ~UnmarshalError(resp.body).err
         THEN [NoReturn EXCEPT !.kind = "error", !.cause = "api", !.status = resp.status,
                               !.Error = UnmarshalError(resp.body).Error,
                               !.Details = UnmarshalError(resp.body).Details]
         ELSE [NoReturn EXCEPT !.kind = "error", !.cause = "api", !.status = resp.status,
                               !.raw = resp.body]
    ELSE [NoReturn EXCEPT !.kind = "body", !.body = resp.body]

\* DoRequest from the return of HTTPClient.Do to io.ReadAll: a transport
\* error is returned; of a response the rate-limit headers are stored in
\* c.LastRateLimit, and the call goes on to read the body.
DoRequestHeader(answered, status, headers) ==
    /\ rpc = "sent"
    /\ IF ~answered
       THEN /\ rpc' = "done"
            /\ rret' = ErrorReturn("transport")
            /\ rresp' = NoResponse
            /\ UNCHANGED rlast
       ELSE /\ rpc' = "reading"
            /\ rlast' = parseRateLimitHeaders(headers)
            /\ rresp' = [transport |-> TRUE, read |-> FALSE, status |-> status,
                         body |-> ""]
            /\ UNCHANGED rret
    /\ UNCHANGED <<rclient, rcalls, rreq, rsrc, rdo>>
    /\ UNCHANGED tokVars
    /\ UNCHANGED opc
    /\ UNCHANGED nonDoVars

\* DoRequest from io.ReadAll(resp.Body) on: the read error is returned, or
\* the body goes through the status check.
DoRequestBody(read, body) ==
    /\ rpc = "reading"
    /\ rpc' = "done"
    /\ IF ~read
       THEN /\ rret' = ErrorReturn("read")
            /\ UNCHANGED rresp
       ELSE /\ rresp' = [rresp EXCEPT !.read = TRUE, !.body = body]
            /\ rret' = DoRequestResult(rresp')
    /\ UNCHANGED <<rclient, rcalls, rreq, rsrc, rlast, rdo>>
    /\ UNCHANGED tokVars
    /\ UNCHANGED opc
    /\ UNCHANGED nonDoVars

(***************************************************************************)
(* Several clients in one process: each Client value has its own token     *)
(* field and its own tokenMutex.                                           *)
(***************************************************************************)
Clients == {"c1", "c2"}

\* The organization each client was made for.
OrgOf(c) == IF c = "c1" THEN "org-a" ELSE "org-b"

\* The goroutines that call into one client.
Goroutines == 1..NumCallers

\* The calls that need a token: GetToken itself, and DoRequest of a client
\* with the signing method, which presents the token as its bearer.
ClientOps == {"GetToken", "DoRequest"}

NoClientRet == [kind |-> "none", op |-> "none", src |-> "none",
                tok |-> [sub |-> "", n |-> 0]]

NoCache == [present |-> FALSE, Token |-> [sub |-> "", n |-> 0], ExpiresAt |-> 0]

InitClients ==
    /\ ktoken = [c \in Clients |-> NoCache]
    /\ kpc = [c \in Clients |-> [g \in Goroutines |-> "idle"]]
    /\ kret = [c \in Clients |-> [g \in Goroutines |-> NoClientRet]]
    /\ kcalls = [c \in Clients |-> 0]
    /\ kissued = 0
    /\ ktouched = [c \in Clients |-> {}]

\* c.tokenMutex is held for writing by a goroutine of c.
ClientLocked(c) == \E g \in Goroutines : kpc[c][g] = "inflight"

\* c.GetToken() under the read lock: the cached token of c is returned while
\* it is usable; or else the read lock is released and the goroutine goes on
\* to c.tokenMutex.Lock().
ClientCall(c, g, op) ==
    /\ kpc[c][g] \in {"idle", "done"}
    /\ ~ClientLocked(c)
    /\ kcalls[c] < MaxRequests
    /\ kcalls' = [kcalls EXCEPT ![c] = @ + 1]
    /\ ktouched' = [ktouched EXCEPT ![c] = @ \cup {c}]
    /\ IF Usable(ktoken[c], now)
       THEN /\ kret' = [kret EXCEPT ![c][g] = [kind |-> "token", op |-> op,
                                               src |-> "cache",
                                               tok |-> ktoken[c].Token]]
            /\ kpc' = [kpc EXCEPT ![c][g] = "done"]
       ELSE /\ kret' = [kret EXCEPT ![c][g] = [NoClientRet EXCEPT !.op = op]]
            /\ kpc' = [kpc EXCEPT ![c][g] = "waiting"]
    /\ UNCHANGED <<ktoken, kissued>>
    /\ UNCHANGED nonCliVars

\* c.GetToken() from c.tokenMutex.Lock() to the token exchange: with the
\* write lock the cache of c is checked again, since another goroutine may
\* have refreshed it; a usable token is returned, or else a request signed
\* with c.OrgID and c.SecretKey is sent.
ClientLock(c, g) ==
    /\ kpc[c][g] = "waiting"
    /\ ~ClientLocked(c)
    /\ ktouched' = [ktouched EXCEPT ![c] = @ \cup {c}]
    /\ IF Usable(ktoken[c], now)
       THEN /\ kret' = [kret EXCEPT ![c][g] = [kind |-> "token", op |-> @.op,
                                               src |-> "recheck",
                                               tok |-> ktoken[c].Token]]
            /\ kpc' = [kpc EXCEPT ![c][g] = "done"]
       ELSE /\ kpc' = [kpc EXCEPT ![c][g] = "inflight"]
            /\ UNCHANGED kret
    /\ UNCHANGED <<ktoken, kissued, kcalls>>
    /\ UNCHANGED nonCliVars

\* A variant with one cache for the whole package.
ClientExchange_Singleton(c, g, exch) ==
    /\ kpc[c][g] = "inflight"
    /\ kpc' = [kpc EXCEPT ![c][g] = "done"]
    /\ IF exch.ok
       THEN /\ kissued' = kissued + 1
            /\ ktoken' = [d \in Clients |->
                            [present |-> TRUE,
                             Token |-> [sub |-> OrgOf(c), n |-> kissued + 1],
                             ExpiresAt |-> now + exch.life]]
            /\ ktouched' = [d \in Clients |-> ktouched[d] \cup {c}]
            /\ kret' = [kret EXCEPT ![c][g] = [kind |-> "token", op |-> @.op,
                                               src |-> "exchange",
                                               tok |-> [sub |-> OrgOf(c),
                                                        n |-> kissued + 1]]]
       ELSE /\ kret' = [kret EXCEPT ![c][g] = [NoClientRet EXCEPT !.kind = "error",
                                                                 !.op = kret[c][g].op]]
            /\ UNCHANGED <<ktoken, kissued, ktouched>>
    /\ UNCHANGED kcalls
    /\ UNCHANGED nonCliVars

\* requestNewTokenLocked of client c from HTTPClient.Do on: the endpoint
\* answers the request signed for c's organization; the token goes into
\* c.token and is returned, and the deferred Unlock releases the write lock.
ClientExchange(c, g, exch) ==
    /\ kpc[c][g] = "inflight"
    /\ kpc' = [kpc EXCEPT ![c][g] = "done"]
    /\ IF exch.ok
       THEN /\ kissued' = kissued + 1
            /\ ktoken' = [ktoken EXCEPT ![c] =
                            [present |-> TRUE,
                             Token |-> [sub |-> OrgOf(c), n |-> kissued + 1],
                             ExpiresAt |-> now + exch.life]]
            /\ ktouched' = [ktouched EXCEPT ![c] = @ \cup {c}]
            /\ kret' = [kret EXCEPT ![c][g] = [kind |-> "token", op |-> @.op,
                                               src |-> "exchange",
                                               tok |-> [sub |-> OrgOf(c),
                                                        n |-> kissued + 1]]]
       ELSE /\ kret' = [kret EXCEPT ![c][g] = [NoClientRet EXCEPT !.kind = "error",
                                                                 !.op = kret[c][g].op]]
            /\ UNCHANGED <<ktoken, kissued, ktouched>>
    /\ UNCHANGED kcalls
    /\ UNCHANGED nonCliVars

(***************************************************************************)
(* signRequest: AWS Signature Version 4 with SHA-512.  Strings that only   *)
(* pass through are strings, Sprintf joins are tuples of their arguments   *)
(* in order, the secret is a sequence of bytes, and a SHA-512 digest is    *)
(* the term of what was hashed (two digests are equal exactly when their   *)
(* inputs are: no collision is assumed).                                   *)
(***************************************************************************)
Region == "us-east-1"
Service == "vdb"
Algorithm == "AWS4-HMAC-SHA512"

\* The block size of SHA-512 in bytes.
BlockSize == 128

\* A byte string, as against a digest.
Bytes(seq) == [raw |-> seq]

IsBytes(x) == "raw" \in DOMAIN x

\* "AWS4" as bytes.
AWS4 == <<65, 87, 83, 52>>

sha512Hash(data) == [hex |-> [sha512 |-> data]]

\* hmac.New copies a key of at most BlockSize bytes into a zeroed block, so
\* the key enters the MAC padded with zero bytes; a longer key is replaced by
\* its SHA-512 digest first.  A digest used as the key has a fixed length,
\* 64 bytes, and its padding is the same every time.
KeyBlock(key) ==
    IF IsBytes(key)
    THEN IF Len(key.raw) > BlockSize
         THEN [sum512 |-> TRUE, of |-> key.raw]
         ELSE [sum512 |-> FALSE,
               of |-> [i \in 1..BlockSize |->
                          IF i <= Len(key.raw) THEN key.raw[i] ELSE 0]]
    ELSE key

hmacSHA512(key, data) == [hmac |-> KeyBlock(key), data |-> data]

\* A variant that ignores the secret.
getSignatureKey_FixedKey(key, dateStamp_, region, service) ==
    hmacSHA512(hmacSHA512(hmacSHA512(hmacSHA512(Bytes(AWS4), dateStamp_),
                                     region), service), "aws4_request")

getSignatureKey(key, dateStamp_, region, service) ==
    LET kDate    == hmacSHA512(Bytes(AWS4 \o key), dateStamp_)
        kRegion  == hmacSHA512(kDate, region)
        kService == hmacSHA512(kRegion, service)
        kSigning == hmacSHA512(kService, "aws4_request")
    IN  kSigning

\* time.Now().UTC() formatted as 20060102T150405Z: the day and the second
\* of the day; the fraction of the second is not written.
AmzDate(t) == <<t.day, t.sec>>

\* Formatted as 20060102.
DateStamp(t) == t.day

\* A variant that leaves the path out of the canonical request.
CanonicalRequest_NoPath(method, path, amzDate, payloadHash) ==
    <<method, "", <<"x-amz-date:", amzDate>>, "x-amz-date", payloadHash>>

CanonicalRequest(method, path, amzDate, payloadHash) ==
    <<method, path, "", <<"x-amz-date:", amzDate>>, "x-amz-date", payloadHash>>

CredentialScope(t) == <<DateStamp(t), Region, Service, "aws4_request">>

StringToSign(in) ==
    <<Algorithm, AmzDate(in.time), CredentialScope(in.time),
      sha512Hash(CanonicalRequest(in.method, in.path, AmzDate(in.time),
                                  sha512Hash(in.body)))>>

Signature(in) ==
    [hex |-> hmacSHA512(getSignatureKey(in.secret, DateStamp(in.time),
                                        Region, Service),
                        StringToSign(in))]

AuthHeader(in) ==
    <<Algorithm, "Credential=", in.org, CredentialScope(in.time),
      "SignedHeaders=", "x-amz-date", "Signature=", Signature(in)>>

\* What signRequest is given: the request's method, the path and body
\* arguments, the clock, and the client's OrgID and SecretKey.
SignMethods == {"GET", "POST"}
SignPaths == {"/auth/token", "/v1/info"}
SignBodies == {"", "{}"}
SignTimes == {[day |-> 0, sec |-> 0, nsec |-> 0], [day |-> 0, sec |-> 0, nsec |-> 1],
              [day |-> 0, sec |-> 1, nsec |-> 0], [day |-> 1, sec |-> 0, nsec |-> 0]}
\* A secret with which "AWS4"+secret fills the block exactly.
BlockSecret == [i \in 1..(BlockSize - Len(AWS4)) |-> 115]

SignSecrets == {<<115>>, <<115, 0>>, <<116>>, BlockSecret, BlockSecret \o <<0>>}
SignOrgs == {"org-a", "org-b"}

SignInputs == [method : SignMethods, path : SignPaths, body : SignBodies,
               time : SignTimes, secret : SignSecrets, org : SignOrgs]

NoSigning == [done |-> FALSE]

InitSign ==
    /\ sgprev = NoSigning
    /\ sgcur = NoSigning

\* c.signRequest(req, path, body): sets X-Amz-Date and Authorization.  Two
\* signings are made and kept side by side.
signRequest(in) ==
    /\ ~sgprev.done
    /\ sgprev' = sgcur
    /\ sgcur' = [done |-> TRUE, in |-> in, date |-> AmzDate(in.time),
                 sig |-> Signature(in), auth |-> AuthHeader(in)]
    /\ UNCHANGED nonSignVars

(***************************************************************************)
(* The login command: runAuthLogin, interactiveLogin and testAuth.         *)
(***************************************************************************)
\* The values of --method, of the store flag, of --org-id and --secret, and
\* the lines typed at the prompts.
MethodFlags == {"", "apikey", "sigv4", "basic"}
StoreFlags == {"", "project", "keyring", "vault"}
OrgFlags == {"", "acme", "123e4567-e89b-12d3-a456-426614174000"}
SecretFlags == {"", "s3cret"}
MethodChoices == {"", "2", "9"}
StoreChoices == {"", "2", "3"}

\* uuid.Parse(s) succeeds
IsUUID(s) == s = "123e4567-e89b-12d3-a456-426614174000"

\* auth.ValidateMethod
ValidateMethod(method) ==
    IF method \in {DirectAPIKey, SigV4} THEN [err |-> FALSE, method |-> method]
    ELSE [err |-> TRUE, method |-> ""]

\* StoreKeyring CredentialStore = "keyring"
StoreKeyring == "keyring"

\* auth.ValidateStore: keyring is known and refused, and returned with the
\* error.
ValidateStore(store) ==
    IF store \in {StoreHome, StoreProject} THEN [err |-> FALSE, store |-> store]
    ELSE IF store = StoreKeyring THEN [err |-> TRUE, store |-> StoreKeyring]
    ELSE [err |-> TRUE, store |-> ""]

\* The flags, with nothing typed; or no flags on a terminal, and the lines
\* typed at the four prompts.
LoginFlags ==
    [tty : BOOLEAN, method : MethodFlags, org : OrgFlags, secret : SecretFlags,
     store : StoreFlags, choice : {""}, typedOrg : {""}, typedSecret : {""},
     storeChoice : {""}]
    \cup [tty : {TRUE}, method : {""}, org : {""}, secret : {""}, store : {""},
          choice : MethodChoices, typedOrg : OrgFlags, typedSecret : SecretFlags,
          storeChoice : StoreChoices]

\* The body of the answer as GetToken's json.Unmarshal into a TokenResponse
\* takes it: a JSON object, a body io.ReadAll fails on, or bytes that are no
\* JSON object (an empty body, "[]", HTML).
ProbeBodies == {"object", "unread", "garbage"}

\* What the test request of testAuth meets: no connection, or a status and
\* a body.
NoProbe == [transport |-> FALSE, status |-> 0, body |-> "unread"]

Probes == {NoProbe}
          \cup [transport : {TRUE}, status : {200, 401, 403, 500},
                body : ProbeBodies]

NoLogin == [kind |-> "none", cause |-> "none", creds |-> NoCreds, store |-> "none"]

LoginError(cause) == [NoLogin EXCEPT !.kind = "error", !.cause = cause]

NoLoginInput ==
    [given |-> FALSE, files |-> [st \in Stores |-> [state |-> "missing", doc |-> NoDoc]],
     perm |-> [st \in Stores |-> NoPerm], valid |-> FALSE, tested |-> FALSE,
     probe |-> NoProbe]

InitLogin ==
    /\ lin = NoLoginInput
    /\ lret = NoLogin

\* interactive := isInteractive() && authMethod == "" && authOrgID == "" &&
\* authSecret == ""
Interactive(f) == f.tty /\ f.method = "" /\ f.org = "" /\ f.secret = ""

\* interactiveLogin(): the answers at the four prompts, or the error.
interactiveLogin(f) ==
    IF f.choice \notin {"", "1", "2"} THEN LoginError("invalid choice")
    ELSE IF ~IsUUID(f.typedOrg) THEN LoginError("invalid UUID")
    ELSE IF f.typedSecret = "" THEN LoginError("secret cannot be empty")
    ELSE IF f.storeChoice = "3" THEN LoginError("keyring storage")
    ELSE IF f.storeChoice \notin {"", "1", "2"} THEN LoginError("invalid choice")
    ELSE [kind |-> "input", cause |-> "none",
          creds |-> Credentials(f.typedOrg, "", f.typedSecret,
                                IF f.choice = "2" THEN SigV4 ELSE DirectAPIKey),
          store |-> IF f.storeChoice = "2" THEN StoreProject ELSE StoreHome]

\* The non-interactive branch of runAuthLogin: the flags, with their defaults.
FlagLogin(f) ==
    LET method == IF f.method = "" THEN "apikey" ELSE f.method
        store == IF f.store = "" THEN "home" ELSE f.store
    IN  IF ValidateMethod(method).err THEN LoginError("invalid auth method")
        ELSE IF f.org = "" THEN LoginError("--org-id is required")
        ELSE IF ~IsUUID(f.org) THEN LoginError("--org-id must be a valid UUID")
        ELSE IF f.secret = "" THEN LoginError("--secret is required")
        ELSE IF ValidateStore(store).err THEN LoginError("invalid store")
        ELSE [kind |-> "input", cause |-> "none",
              creds |-> Credentials(f.org, "", f.secret, ValidateMethod(method).method),
              store |-> ValidateStore(store).store]

\* method, orgIDVal, secret and store of runAuthLogin, or its early error.
LoginInput(f) == IF Interactive(f) THEN interactiveLogin(f) ELSE FlagLogin(f)

\* creds as runAuthLogin builds them: the secret goes into APIKey or Secret
\* by the method.
LoginCredentials(in) ==
    IF in.creds.Method = DirectAPIKey
    THEN Credentials(in.creds.OrgID, in.creds.Secret, "", DirectAPIKey)
    ELSE in.creds

\* GetToken of a new client returns an error: requestNewTokenLocked fails
\* when HTTPClient.Do does, when io.ReadAll does, on a status other than
\* 200, and on a 200 whose body does not unmarshal into a TokenResponse.
ProbeTokenFails(probe) ==
    \/ ~probe.transport
    \/ probe.body = "unread"
    \/ probe.status # 200
    \/ probe.body # "object"

\* testAuth(creds) returns an error.  The API key test looks at the
\* connection and the status only and never reads the body; the SigV4 test
\* is a full token exchange.
testAuthFails(creds, probe) ==
    IF creds.Method = DirectAPIKey
    THEN \/ creds.APIKey = ""
         \/ ~probe.transport
         \/ probe.status \in {401, 403}
    ELSE IF creds.Method = SigV4
    THEN ProbeTokenFails(probe)
    ELSE FALSE

\* A variant that goes on to save whatever the test said.
runAuthLogin_SaveUntested(f, probe) ==
    /\ lret = NoLogin
    /\ csave = NoSave
    /\ lin' = [given |-> TRUE, files |-> cfile, perm |-> cperm,
               valid |-> LoginInput(f).kind = "input",
               tested |-> /\ LoginInput(f).kind = "input"
                          /\ ~testAuthFails(LoginCredentials(LoginInput(f)), probe),
               probe |-> probe]
    /\ lret' = IF LoginInput(f).kind = "error" THEN LoginInput(f)
               ELSE [kind |-> "tested", cause |-> "none",
                     creds |-> LoginCredentials(LoginInput(f)),
                     store |-> LoginInput(f).store]
    /\ UNCHANGED nonLoginVars

\* runAuthLogin up to the call of auth.SaveCredentials: the input, the
\* credentials, testAuth.
runAuthLogin(f, probe) ==
    /\ lret = NoLogin
    /\ csave = NoSave
    /\ lin' = [given |-> TRUE, files |-> cfile, perm |-> cperm,
               valid |-> LoginInput(f).kind = "input",
               tested |-> /\ LoginInput(f).kind = "input"
                          /\ ~testAuthFails(LoginCredentials(LoginInput(f)), probe),
               probe |-> probe]
    /\ lret' = IF LoginInput(f).kind = "error" THEN LoginInput(f)
               ELSE IF testAuthFails(LoginCredentials(LoginInput(f)), probe)
               THEN LoginError("authentication test failed")
               ELSE [kind |-> "tested", cause |-> "none",
                     creds |-> LoginCredentials(LoginInput(f)),
                     store |-> LoginInput(f).store]
    /\ UNCHANGED nonLoginVars

\* runAuthLogin from auth.SaveCredentials(creds, store) on; what it returns
\* is the error of SaveCredentials, or nil.
runAuthLoginSave(outcome) ==
    /\ lret.kind = "tested"
    /\ csave = NoSave
    /\ SaveCredentials(lret.creds, lret.store, outcome)

\* The environment before the login: HOME, and a credentials file.
BeforeLoginSetenv(set) == lret = NoLogin /\ Setenv("HOME", set)

BeforeLoginPutFile(store, content) ==
    lret = NoLogin /\ PutCredentialsFile(store, content)

(***************************************************************************)
(* ArtifactUploader (NewArtifactUploader, addAuthHeaders,                  *)
(* InitiateTransaction, UploadArtifact) and the upload client (NewClient,  *)
(* addAuth), which take their Authorization header from GetAuthHeader.     *)
(***************************************************************************)
\* A *auth.Credentials: nil, or credentials.
NilCreds == [nil |-> TRUE, c |-> NoCreds]

SomeCreds(c) == [nil |-> FALSE, c |-> c]

\* A variant that answers the signing method with a bearer header.
GetAuthHeader_BearerForSigV4(creds) ==
    IF creds.Method = DirectAPIKey THEN ApiKeyAuth(creds.OrgID, creds.APIKey)
    ELSE IF creds.Method = SigV4 THEN BearerAuth(0)
    ELSE NoAuth

\* auth.GetAuthHeader(creds); NoAuth is the empty string.
GetAuthHeader(creds) ==
    IF creds.Method = DirectAPIKey THEN ApiKeyAuth(creds.OrgID, creds.APIKey)
    ELSE IF creds.Method = SigV4 THEN NoAuth
    ELSE NoAuth

\* A header value that is one text.
PlainHeader(text) == [NoAuth EXCEPT !.scheme = text]

\* addAuthHeaders(req) of the uploader and addAuth(req) of the upload
\* client: the headers they set, by name.
addAuthHeaders(creds) ==
    [h \in {"User-Agent"} \cup
           (IF ~creds.nil /\ GetAuthHeader(creds.c) # NoAuth
            THEN {"Authorization"} ELSE {}) |->
        IF h = "User-Agent"
        THEN PlainHeader("Vulnetix-CLI/1.0")
        ELSE GetAuthHeader(creds.c)]

\* auth.LoadCredentials() as a value: the credentials, or none and an error.
ResolvedCredentials(env, files) ==
    IF env["VULNETIX_API_KEY"] # "" /\ env["VULNETIX_ORG_ID"] # ""
    THEN SomeCreds(Credentials(env["VULNETIX_ORG_ID"], env["VULNETIX_API_KEY"], "",
                               DirectAPIKey))
    ELSE IF env["VVD_ORG"] # "" /\ env["VVD_SECRET"] # ""
    THEN SomeCreds(Credentials(env["VVD_ORG"], "", env["VVD_SECRET"], SigV4))
    ELSE IF ~loadFromFile(env, files, StoreProject).err
    THEN SomeCreds(loadFromFile(env, files, StoreProject).creds)
    ELSE IF ~loadFromFile(env, files, StoreHome).err
    THEN SomeCreds(loadFromFile(env, files, StoreHome).creds)
    ELSE NilCreds

\* The org-id argument of NewArtifactUploader.
OrgArgs == {"arg-org"}

NotMade == [kind |-> "none", orgID |-> "", creds |-> NilCreds]

\* The JSON object of a response: txnid and uuid, and success when given.
ResponseDocs ==
    {[k \in ids \cup flag |->
        IF k = "txnid" THEN "txn-1" ELSE IF k = "uuid" THEN "uuid-1" ELSE sv] :
        ids \in {{}, {"txnid", "uuid"}}, flag \in {{}, {"success"}},
        sv \in {"true", "false"}}

\* A response body: not JSON, the JSON null, or a JSON object.
ResponseBodies ==
    {[state |-> st, doc |-> [k \in {} |-> ""]] : st \in {"garbage", "null"}}
    \cup {[state |-> "json", doc |-> d] : d \in ResponseDocs}

NoBody == [state |-> "garbage", doc |-> [k \in {} |-> ""]]

\* What client.Do and io.ReadAll give.
UploaderResponses ==
    {[transport |-> FALSE, read |-> FALSE, status |-> 0, body |-> NoBody]}
    \cup [transport : {TRUE}, read : {FALSE}, status : {200}, body : {NoBody}]
    \cup [transport : {TRUE}, read : {TRUE}, status : {200, 201, 202, 404},
          body : ResponseBodies]

\* json.Unmarshal(respBody, &txnResp) and json.Unmarshal(respBody,
\* &uploadResp): an absent key, and null, leave the zero value.
DecodeResponse(body) ==
    [err |-> body.state = "garbage",
     TxnID |-> Field(body.doc, "txnid"),
     UUID |-> Field(body.doc, "uuid"),
     Success |-> Field(body.doc, "success") = "true"]

NoCallReturn == [kind |-> "none", cause |-> "none", TxnID |-> "", UUID |-> ""]

CallError(cause) == [NoCallReturn EXCEPT !.kind = "error", !.cause = cause]

\* A variant that takes any decodable body of an accepted status.
TransactionResult_NoSuccessCheck(op, resp) ==
    IF ~resp.transport THEN CallError("request failed")
    ELSE IF ~resp.read THEN CallError("failed to read response")
    ELSE IF resp.status # 200 /\ resp.status # 201 THEN CallError("failed with status")
    ELSE IF DecodeResponse(resp.body).err THEN CallError("failed to decode response")
    ELSE [kind |-> "result", cause |-> "none",
          TxnID |-> IF op = "InitiateTransaction"
                    THEN DecodeResponse(resp.body).TxnID ELSE "",
          UUID |-> IF op = "UploadArtifact"
                   THEN DecodeResponse(resp.body).UUID ELSE ""]

\* InitiateTransaction and UploadArtifact from the return of client.Do on:
\* &txnResp or &uploadResp, or the error.
TransactionResult(op, resp) ==
    IF ~resp.transport THEN CallError("request failed")
    ELSE IF ~resp.read THEN CallError("failed to read response")
    ELSE IF resp.status # 200 /\ resp.status # 201 THEN CallError("failed with status")
    ELSE IF DecodeResponse(resp.body).err THEN CallError("failed to decode response")
    ELSE IF ~DecodeResponse(resp.body).Success THEN CallError("success is false")
    ELSE [kind |-> "result", cause |-> "none",
          TxnID |-> IF op = "InitiateTransaction"
                    THEN DecodeResponse(resp.body).TxnID ELSE "",
          UUID |-> IF op = "UploadArtifact"
                   THEN DecodeResponse(resp.body).UUID ELSE ""]

NoUploaderResponse ==
    [got |-> FALSE, transport |-> FALSE, read |-> FALSE, status |-> 0, body |-> NoBody]

InitAuth ==
    /\ aup = NotMade
    /\ areq = <<>>
    /\ aresp = NoUploaderResponse
    /\ aret = NoCallReturn

\* A variant that prefers VULNETIX_API_KEY to the resolved credentials.
NewArtifactUploader_EnvKeyFirst(orgID) ==
    /\ aup = NotMade
    /\ aup' = [kind |-> "uploader", orgID |-> orgID,
               creds |-> IF cenv["VULNETIX_API_KEY"] # ""
                         THEN SomeCreds(Credentials(orgID, cenv["VULNETIX_API_KEY"],
                                                    "", DirectAPIKey))
                         ELSE ResolvedCredentials(cenv, cfile)]
    /\ UNCHANGED <<areq, aresp, aret>>
    /\ UNCHANGED nonAuthVars

\* NewArtifactUploader(baseURL, orgID)
NewArtifactUploader(orgID) ==
    /\ aup = NotMade
    /\ aup' = [kind |-> "uploader", orgID |-> orgID,
               creds |-> IF ~ResolvedCredentials(cenv, cfile).nil
                         THEN ResolvedCredentials(cenv, cfile)
                         ELSE IF cenv["VULNETIX_API_KEY"] # ""
                         THEN SomeCreds(Credentials(orgID, cenv["VULNETIX_API_KEY"],
                                                    "", DirectAPIKey))
                         ELSE NilCreds]
    /\ UNCHANGED <<areq, aresp, aret>>
    /\ UNCHANGED nonAuthVars

\* The command returned an error before it made a client.
NoClientMade == [kind |-> "failed", orgID |-> "", creds |-> NilCreds]

\* runAuthVerify up to upload.NewClient(verifyBaseURL, creds): the error of
\* auth.LoadCredentials(), or the client with the resolved credentials.
NewUploadClient ==
    /\ aup = NotMade
    /\ IF ResolvedCredentials(cenv, cfile).nil
       THEN /\ aup' = NoClientMade
            /\ aret' = CallError("no credentials found")
       ELSE /\ aup' = [kind |-> "client", orgID |-> "",
                       creds |-> ResolvedCredentials(cenv, cfile)]
            /\ UNCHANGED aret
    /\ UNCHANGED <<areq, aresp>>
    /\ UNCHANGED nonAuthVars

\* runUpload, with --file given, up to upload.NewClient(uploadBaseURL,
\* creds): os.Stat, auth.LoadCredentials(), and --org-id, which must parse
\* as a UUID and then replaces the org id of the credentials.
runUpload(statOK, orgFlag) ==
    /\ aup = NotMade
    /\ IF ~statOK
       THEN /\ aup' = NoClientMade
            /\ aret' = CallError("cannot access file")
       ELSE IF ResolvedCredentials(cenv, cfile).nil
       THEN /\ aup' = NoClientMade
            /\ aret' = CallError("authentication required")
       ELSE IF orgFlag # "" /\ ~IsUUID(orgFlag)
       THEN /\ aup' = NoClientMade
            /\ aret' = CallError("--org-id must be a valid UUID")
       ELSE /\ aup' = [kind |-> "client", orgID |-> orgFlag,
                       creds |-> IF orgFlag = ""
                                 THEN ResolvedCredentials(cenv, cfile)
                                 ELSE SomeCreds([ResolvedCredentials(cenv, cfile).c
                                                    EXCEPT !.OrgID = orgFlag])]
            /\ UNCHANGED aret
    /\ UNCHANGED <<areq, aresp>>
    /\ UNCHANGED nonAuthVars

\* A request as it is sent: Content-Type when the caller sets it, then the
\* headers of addAuthHeaders or addAuth.
SentRequest(op, route, contentType, creds) ==
    [op |-> op, route |-> route,
     headers |-> [h \in DOMAIN addAuthHeaders(creds) \cup
                        (IF contentType = "" THEN {} ELSE {"Content-Type"}) |->
                    IF h = "Content-Type" THEN PlainHeader(contentType)
                    ELSE addAuthHeaders(creds)[h]]]

\* The Content-Type of the requests of the upload client: doRequest sets
\* application/json when it has a body (InitiateSession, FinalizeUpload; not
\* VerifyAuth), UploadChunk application/octet-stream.
ClientContentType(op) ==
    CASE op = "UploadChunk" -> "application/octet-stream"
      [] op = "VerifyAuth" -> ""
      [] OTHER -> "application/json"

\* InitiateTransaction(metadata, artifactNames) up to client.Do(req)
InitiateTransaction ==
    /\ aup.kind = "uploader"
    /\ areq = <<>>
    /\ aret = NoCallReturn
    /\ areq' = <<SentRequest("InitiateTransaction", "artifact-upload",
                             "application/json", aup.creds)>>
    /\ UNCHANGED <<aup, aresp, aret>>
    /\ UNCHANGED nonAuthVars

\* Transaction ids given to the uploader: "a" and "@".
UploaderTxnIds == {<<97>>, <<64>>}

\* UploadArtifact(txnID, artifactName, artifactDir) up to client.Do(req):
\* validation, findFilesInDir, the multipart body and the request.
UploadArtifactSend(txnID, dir) ==
    /\ aup.kind = "uploader"
    /\ areq = <<>>
    /\ aret = NoCallReturn
    /\ IF validateTxnID(txnID) # "nil"
       THEN /\ aret' = CallError("invalid transaction ID")
            /\ UNCHANGED areq
       ELSE IF dir # "files"
       THEN /\ aret' = CallError(DirError(dir))
            /\ UNCHANGED areq
       ELSE /\ areq' = <<SentRequest("UploadArtifact", "artifact-upload/{txn}",
                                     "multipart/form-data", aup.creds)>>
            /\ UNCHANGED aret
    /\ UNCHANGED <<aup, aresp>>
    /\ UNCHANGED nonAuthVars

\* The uploader's call from the return of client.Do(req) on.
UploaderReturn(resp) ==
    /\ aup.kind = "uploader"
    /\ Len(areq) = 1
    /\ ~aresp.got
    /\ aresp' = [got |-> TRUE, transport |-> resp.transport, read |-> resp.read,
                 status |-> resp.status, body |-> resp.body]
    /\ aret' = TransactionResult(areq[1].op, resp)
    /\ UNCHANGED <<aup, areq>>
    /\ UNCHANGED nonAuthVars

\* A request of the upload client: doRequest (InitiateSession,
\* FinalizeUpload, VerifyAuth) or UploadChunk, up to HTTPClient.Do(req)
UploadClientRequest(op) ==
    /\ aup.kind = "client"
    /\ Len(areq) < MaxRequests
    /\ areq' = Append(areq, SentRequest(op, IF op = "VerifyAuth" THEN "cli/verify"
                                            ELSE "artifact-upload",
                                        ClientContentType(op), aup.creds))
    /\ UNCHANGED <<aup, aresp, aret>>
    /\ UNCHANGED nonAuthVars

\* The environment and the credentials files before the uploader or the
\* client is made.
BeforeMadeSetenv(name, set) == aup = NotMade /\ Setenv(name, set)

BeforeMadePutFile(store, content) ==
    aup = NotMade /\ PutCredentialsFile(store, content)

\* The credentials files tried: none, a sigv4 file, an apikey file.
UploaderFiles(store) ==
    {[state |-> "missing", doc |-> NoDoc]}
    \cup {[state |-> "json", doc |-> MarshalIndent(c)] :
            c \in {Credentials("proj-org", "proj-key", "", DirectAPIKey),
                   Credentials("proj-org", "", "proj-secret", SigV4)}}

(***************************************************************************)
(* Specifications.                                                         *)
(***************************************************************************)
NextToken ==
    \/ \E c \in Callers : RLock(c)
    \/ \E c \in Callers : ReadCheck(c)
    \/ \E c \in Callers : Lock(c)
    \/ \E c \in Callers : WriteCheck(c)
    \/ \E c \in Callers, life \in Lifetimes : RespondOK(c, life)
    \/ \E c \in Callers, kind \in FailKinds : RespondFail(c, kind)
    \/ Tick

InitAll ==
    /\ InitToken /\ InitUpload /\ InitTxn /\ InitZip /\ InitCreds /\ InitGHA
    /\ InitDownload /\ InitDo /\ InitRate /\ InitClients /\ InitSign
    /\ InitLogin /\ InitAuth

SpecToken == InitAll /\ [][NextToken]_vars

\* The token exchange of a caller comes back, with a token or with an error.
Respond(c) ==
    \/ \E life \in Lifetimes : RespondOK(c, life)
    \/ \E kind \in FailKinds : RespondFail(c, kind)

\* The scheduling of the callers: a goroutine that can run its next
\* statement does; sync.RWMutex hands the exclusive lock to a waiting
\* Lock() (a pending Lock keeps new readers out); every HTTPClient.Do of a
\* token exchange returns.
FairToken ==
    \A c \in Callers :
        /\ WF_vars(ReadCheck(c))
        /\ SF_vars(Lock(c))
        /\ WF_vars(WriteCheck(c))
        /\ WF_vars(Respond(c))

LiveToken == SpecToken /\ FairToken

NextUpload ==
    \/ \E readable \in BOOLEAN, size \in FileSizes : UploadFile(readable, size)
    \/ \E size \in FileSizes : SimpleUpload(size)
    \/ \E size \in FileSizes : ChunkedUpload(size)
    \/ \E o \in Outcomes, sid \in SessionIds : Initiate(o, sid)
    \/ \E o \in Outcomes : UploadChunkStep(o)
    \/ \E o \in Outcomes : Finalize(o)

SpecUpload == InitAll /\ [][NextUpload]_vars

NextTxn ==
    \/ \E txnID \in TxnIds, dir \in DirStates : UploadArtifact(txnID, dir)
    \/ \E resp \in TxnResponses : UploadArtifactResponse(resp)
    \/ \E txnID \in TxnIds : GetTransactionStatus(txnID)
    \/ \E resp \in TxnResponses : GetTransactionStatusResponse(resp)
    \/ \E artifactUUID \in ArtifactUUIDs : GetArtifactStatus(artifactUUID)
    \/ \E resp \in TxnResponses : GetArtifactStatusResponse(resp)

SpecTxn == InitAll /\ [][NextTxn]_vars

NextZip ==
    \/ \E archive \in ZipArchives, readable \in BOOLEAN, checked \in BOOLEAN :
            OpenArchive(archive, readable, checked)
    \/ \E copied \in BOOLEAN : ExtractEntry(copied)
    \/ \E copied \in BOOLEAN : ExtractEntryChecked(copied)
    \/ ExtractDone

SpecZip == InitAll /\ [][NextZip]_vars

NextCreds ==
    \/ \E name \in EnvNames, set \in BOOLEAN : Setenv(name, set)
    \/ \E store \in Stores : \E content \in FileContents(store) :
            PutCredentialsFile(store, content)
    \/ LoadCredentials

SpecCreds == InitAll /\ [][NextCreds]_vars

NextGHA ==
    \/ \E valid \in BOOLEAN, listed \in BOOLEAN, artifacts \in ArtifactLists :
            GHAList(valid, listed, artifacts)
    \/ \E ok \in BOOLEAN, txn \in ServerTxnIds : GHAInitiate(ok, txn)
    \/ \E ok \in BOOLEAN : GHADownload(ok)
    \/ \E ok \in BOOLEAN : GHAUpload(ok)
    \/ GHAReturn

SpecGHA == InitAll /\ [][NextGHA]_vars

NextDownload ==
    \/ \E artifact \in Artifacts, hasToken \in BOOLEAN, mkdirOK \in BOOLEAN :
            DownloadArtifact(artifact, hasToken, mkdirOK)
    \/ \E artifact \in Artifacts, hasToken \in BOOLEAN, mkdirOK \in BOOLEAN :
            DownloadArtifactChecked(artifact, hasToken, mkdirOK)
    \/ \E outcome \in RequestOutcomes : DownloadRequest(outcome)
    \/ \E outcome \in SaveBodyOutcomes : DownloadSave(outcome)
    \/ \E extracted \in BOOLEAN, wrote \in ExtractWrites :
            DownloadExtract(extracted, wrote)

SpecDownload == InitAll /\ [][NextDownload]_vars

NextDo ==
    \/ \E creds \in ClientCreds : NewClientFromCredentials(creds)
    \/ \E built \in BOOLEAN : DoRequest(built)
    \/ \E c \in Callers : OtherDoRequest(c)
    \/ \E c \in Callers : OtherDoRequestSend(c)
    \/ \E c \in Callers, answered \in BOOLEAN, headers \in ResponseHeaders :
            OtherDoRequestResponse(c, answered, headers)
    \/ \E c \in Callers : ReadCheck(c)
    \/ \E c \in Callers : Lock(c)
    \/ \E c \in Callers : WriteCheck(c)
    \/ \E c \in Callers, life \in Lifetimes : RespondOK(c, life)
    \/ \E c \in Callers, kind \in FailKinds : RespondFail(c, kind)
    \/ DoRequestSend
    \/ \E answered \in BOOLEAN, status \in Statuses, headers \in ResponseHeaders :
            DoRequestHeader(answered, status, headers)
    \/ \E read \in BOOLEAN, body \in Bodies : DoRequestBody(read, body)

SpecDo == InitAll /\ [][NextDo]_vars

\* One run of the program either uploads one file or works with an API
\* client.
RunUploadFile(readable, size) == rpc = "new" /\ UploadFile(readable, size)

RunNewClient(creds) == upc = "idle" /\ NewClientFromCredentials(creds)

NextRun ==
    \/ \E readable \in BOOLEAN, size \in FileSizes : RunUploadFile(readable, size)
    \/ \E o \in Outcomes, sid \in SessionIds : Initiate(o, sid)
    \/ \E o \in Outcomes : UploadChunkStep(o)
    \/ \E o \in Outcomes : Finalize(o)
    \/ \E creds \in ClientCreds : RunNewClient(creds)
    \/ \E built \in BOOLEAN : DoRequest(built)
    \/ ReadCheck(DoCaller)
    \/ Lock(DoCaller)
    \/ WriteCheck(DoCaller)
    \/ \E life \in Lifetimes : RespondOK(DoCaller, life)
    \/ \E kind \in FailKinds : RespondFail(DoCaller, kind)
    \/ DoRequestSend
    \/ \E answered \in BOOLEAN, status \in Statuses, headers \in ResponseHeaders :
            DoRequestHeader(answered, status, headers)
    \/ \E read \in BOOLEAN, body \in Bodies : DoRequestBody(read, body)

SpecRun == InitAll /\ [][NextRun]_vars

\* The credentials one login saves to a store.
LoginCreds(store) ==
    {Credentials(IF store = StoreProject THEN "proj-org" ELSE "home-org",
                 IF store = StoreProject THEN "proj-key" ELSE "home-key",
                 "", DirectAPIKey)}

NextFiles ==
    \/ \E set \in BOOLEAN : Setenv("HOME", set)
    \/ \E store \in Stores : Mkdir(store)
    \/ \E store \in Stores : \E dirMode \in {OwnerOnlyDir, SharedDir} :
         \E fileMode \in {OwnerOnlyFile, SharedFile} : Chmod(store, dirMode, fileMode)
    \/ \E store \in Stores : \E creds \in LoginCreds(store) :
         \E outcome \in SaveOutcomes : SaveCredentials(creds, store, outcome)
    \/ \E out \in [Stores -> RemoveOutcomes] : RemoveCredentials(out)

SpecFiles == InitAll /\ [][NextFiles]_vars

NextClients ==
    \/ \E c \in Clients, g \in Goroutines, op \in ClientOps : ClientCall(c, g, op)
    \/ \E c \in Clients, g \in Goroutines : ClientLock(c, g)
    \/ \E c \in Clients, g \in Goroutines, exch \in Exchanges :
            ClientExchange(c, g, exch)
    \/ Tick

SpecClients == InitAll /\ [][NextClients]_vars

NextSign == \E in \in SignInputs : signRequest(in)

SpecSign == InitAll /\ [][NextSign]_vars

NextLogin ==
    \/ \E set \in BOOLEAN : BeforeLoginSetenv(set)
    \/ \E store \in Stores : \E content \in {[state |-> "missing", doc |-> NoDoc]}
            \cup {[state |-> "json", doc |-> MarshalIndent(c)] : c \in LoginCreds(store)} :
            BeforeLoginPutFile(store, content)
    \/ \E f \in LoginFlags, probe \in Probes : runAuthLogin(f, probe)
    \/ \E outcome \in SaveOutcomes : runAuthLoginSave(outcome)

SpecLogin == InitAll /\ [][NextLogin]_vars

NextAuth ==
    \/ \E name \in EnvNames \ {"HOME"}, set \in BOOLEAN : BeforeMadeSetenv(name, set)
    \/ \E content \in UploaderFiles(StoreProject) :
            BeforeMadePutFile(StoreProject, content)
    \/ \E orgID \in OrgArgs : NewArtifactUploader(orgID)
    \/ NewUploadClient
    \/ \E statOK \in BOOLEAN, orgFlag \in OrgFlags : runUpload(statOK, orgFlag)
    \/ InitiateTransaction
    \/ \E txnID \in UploaderTxnIds, dir \in DirStates : UploadArtifactSend(txnID, dir)
    \/ \E resp \in UploaderResponses : UploaderReturn(resp)
    \/ \E op \in {"InitiateSession", "UploadChunk", "FinalizeUpload", "VerifyAuth"} :
            UploadClientRequest(op)

SpecAuth == InitAll /\ [][NextAuth]_vars

NextRate == \E headers \in AllHeaders : ParseRateLimit(headers)

SpecRate == InitAll /\ [][NextRate]_vars

NextStore ==
    \/ \E set \in BOOLEAN : Setenv("HOME", set)
    \/ \E store \in Stores : \E creds \in SaveInputs(store) :
         \E outcome \in SaveOutcomes : SaveCredentials(creds, store, outcome)
    \/ LoadCredentials

SpecStore == InitAll /\ [][NextStore]_vars

(***************************************************************************)
(* Claims about the token cache.                                           *)
(***************************************************************************)
\* now < expiry - 3 minutes, written out on the values a caller recorded at
\* its last check of the cache.
FreshAtCheck(c) ==
    /\ chk[c].cache.present
    /\ chk[c].at + SafetyMarginMin < chk[c].cache.ExpiresAt

Inflight == {c \in Callers : pc[c] = "inflight"}

\* C1 as stated: when every caller has made one GetToken call, each begun
\* while the cache was empty, and all have returned, exactly one token
\* exchange was issued and every caller holds the token stored by it.
C1_ColdCacheOneExchange ==
    (ncalls = NumCallers /\ \A c \in Callers : pc[c] = "done" /\ cold[c])
        => /\ nreq = 1
           /\ \A c \in Callers : ret[c].kind = "token" /\ ret[c].tok = token.Token

\* C1 as amended: as long as no token exchange has failed and no re-check under
\* the exclusive lock has found a stored token within 3 minutes of its expiry,
\* at most one token exchange is issued in total; every caller that has
\* returned holds the token of that one exchange, and only the caller whose
\* re-check found the cache empty issued it (the callers that waited for the
\* lock return the stored token without a request of their own).
C1_OneExchangeWhileFresh ==
    (nfail = 0 /\ ~staleSeen)
        => /\ nreq <= 1
           /\ Cardinality({c \in Callers : myreq[c]}) <= 1
           /\ \A c \in Callers :
                pc[c] = "done"
                    => /\ nreq = 1
                       /\ ret[c].kind = "token"
                       /\ ret[c].tok = token.Token
                       /\ (ret[c].src = "cache" <=> ~myreq[c])

\* Two callers began against an empty cache; one exchanged, the other waited
\* for the lock and returned the stored token.
C1_Witness ==
    \E c, d \in Callers :
        /\ c # d
        /\ cold[c] /\ cold[d]
        /\ pc[c] = "done" /\ pc[d] = "done"
        /\ ret[c].src = "exchange"
        /\ ret[d].src = "cache" /\ ~myreq[d]
        /\ nfail = 0 /\ ~staleSeen

\* C2: at most one token exchange is in flight; the caller it belongs to holds
\* the exclusive lock (no reader holds the shared lock meanwhile) and has
\* re-checked, under that lock, the very cache entry that is stored now and
\* found it empty or stale.
C2_AtMostOneInFlight ==
    /\ Cardinality(Inflight) <= 1
    /\ \A c \in Inflight :
        /\ writer = c
        /\ readers = {}
        /\ myreq[c]
        /\ chk[c].cache = token
        /\ ~FreshAtCheck(c)

\* An exchange is in flight after an earlier one failed, and another caller
\* is waiting for the lock.
C2_Witness ==
    \E c, d \in Callers :
        /\ pc[c] = "inflight"
        /\ pc[d] = "wantlock"
        /\ nfail >= 1

\* C3: a caller returns a token from the cache only if its last check saw
\* now < expiry - 3 minutes, and then it returns that entry's token and has
\* issued no exchange; a caller goes on to the exclusive lock, or issues an
\* exchange, only if its last check saw an empty entry or now >= expiry - 3
\* minutes.
C3_CacheOnlyWhileFresh ==
    \A c \in Callers :
        /\ ret[c].src = "cache"
            => /\ FreshAtCheck(c)
               /\ ret[c].tok = chk[c].cache.Token
               /\ ~myreq[c]
        /\ pc[c] \in {"wantlock", "locked", "inflight"} => ~FreshAtCheck(c)
        /\ myreq[c] => ~FreshAtCheck(c)
        /\ (pc[c] = "done" /\ ~FreshAtCheck(c)) => myreq[c]

\* One caller was served from the cache after some time had passed, and a
\* later caller found the same entry exactly 3 minutes before its expiry and
\* asked for a new token.
C3_Witness ==
    \E c, d \in Callers :
        /\ ret[c].src = "cache" /\ chk[c].at > 0
        /\ pc[d] = "inflight"
        /\ chk[d].cache.present
        /\ chk[d].cache.Token = ret[c].tok
        /\ chk[d].at + SafetyMarginMin = chk[d].cache.ExpiresAt

\* C4: a step in which a token exchange fails leaves the cache entry as it
\* was and hands the error to the caller that issued the exchange; while the
\* most recent exchange to finish is a failed one the stored entry is not
\* usable, and the next caller to re-check it under the lock issues a new
\* exchange.
C4_FailedRefreshKeepsCache ==
    [][ /\ nfail' # nfail
            => /\ token' = token
               /\ \E c \in Callers :
                    /\ pc[c] = "inflight"
                    /\ pc'[c] = "done"
                    /\ ret'[c].kind = "error"
               /\ ~(token'.present /\ now' + SafetyMarginMin < token'.ExpiresAt)
        /\ \A c \in Callers :
            (lastFailed /\ pc[c] = "locked" /\ pc'[c] # "locked")
                => pc'[c] = "inflight" /\ nreq' = nreq + 1
      ]_vars

\* A refresh of a stale entry failed: the caller has the error, the stale
\* entry is still stored, and the next caller has issued a new exchange.
C4_Witness ==
    \E c, d \in Callers :
        /\ ret[c].kind = "error"
        /\ token.present
        /\ nfail >= 1
        /\ pc[d] = "inflight"

(***************************************************************************)
(* Claims about the chunked upload.                                        *)
(***************************************************************************)
IsChunk(r) == r.kind = "chunk"

ChunkReqs == SelectSeq(ulog, IsChunk)

ChunkLen(r) == r.end - r.start

RECURSIVE SumLen(_)
SumLen(reqs) == IF reqs = <<>> THEN 0 ELSE ChunkLen(Head(reqs)) + SumLen(Tail(reqs))

\* ceil(S / C), not by the program's formula
CeilDiv(S, C) == IF S % C = 0 THEN S \div C ELSE S \div C + 1

FinalizeSent == \E i \in 1..Len(ulog) : ulog[i].kind = "finalize"

\* C5: the requests of an upload are, in order, one initiate declaring
\* fileSize = len(data) and totalChunks = N, then chunks numbered 1, 2, ... with
\* no gap or repeat, then finalize; finalize is the last request and is sent
\* only after N chunk requests, none of which returned an error; the chunks of
\* an upload that returned a result add up to the declared file size.
C5_RequestOrder ==
    /\ \A i \in 1..Len(ulog) :
        /\ (i = 1) <=> (ulog[i].kind = "initiate")
        /\ ulog[i].kind = "chunk" => ulog[i].n = i - 1 /\ i - 1 <= ulog[1].totalChunks
        /\ ulog[i].kind = "finalize"
            => /\ i = Len(ulog)
               /\ i = ulog[1].totalChunks + 2
               /\ \A k \in 1..(i - 1) : ~ulog[k].err
    /\ ulog # <<>> => ulog[1].fileSize = fileSize
    /\ uresult.kind = "ok"
        => /\ Len(ulog) = ulog[1].totalChunks + 2
           /\ ulog[Len(ulog)].kind = "finalize"
           /\ SumLen(ChunkReqs) = ulog[1].fileSize

\* A 12 MiB file went through ChunkedUpload: chunks of 5 MiB, 5 MiB and 2 MiB,
\* then finalize, and the upload returned a result.
C5_Witness ==
    /\ uresult.kind = "ok"
    /\ fileSize = 12 * MiB
    /\ Len(ulog) = 5
    /\ ChunkLen(ulog[2]) = 5 * MiB
    /\ ChunkLen(ulog[3]) = 5 * MiB
    /\ ChunkLen(ulog[4]) = 2 * MiB
    /\ ulog[5].kind = "finalize"

\* C6: in ChunkedUpload, with S = len(data) and C = DefaultChunkSize, the
\* declared number of chunks is ceil(S/C); every chunk sent but the last has
\* length C and the last has length S mod C, or C when that is zero; each
\* chunk starts where the one before ended; and once all chunk calls are made
\* there are ceil(S/C) of them and their lengths add up to S.
C6_ChunkArithmetic ==
    (upath = "chunked" /\ upc # "idle")
        => LET S == fileSize
               C == DefaultChunkSize
               N == CeilDiv(S, C)
               sent == ChunkReqs
           IN  /\ totalChunks = N
               /\ Len(sent) <= N
               /\ \A k \in 1..Len(sent) :
                    /\ sent[k].start = (IF k = 1 THEN 0 ELSE sent[k - 1].end)
                    /\ ChunkLen(sent[k]) =
                         IF k < N THEN C
                         ELSE IF S % C = 0 THEN C ELSE S % C
               /\ (ui = totalChunks \/ FinalizeSent)
                    => Len(sent) = N /\ SumLen(sent) = S

\* ChunkedUpload of a file of two full chunks and one more byte has made all
\* its chunk calls.
C6_Witness ==
    /\ upath = "chunked"
    /\ fileSize = 2 * DefaultChunkSize + 1
    /\ FinalizeSent
    /\ Len(ChunkReqs) = 3
    /\ ChunkLen(ChunkReqs[3]) = 1

\* C7: a request that returned an error is the last request of the upload,
\* and the upload has then returned an error naming that phase and no result:
\* after a failed initiate there is no chunk and no finalize request, after a
\* failed chunk k no chunk above k and no finalize request; a result is
\* returned only when no request failed.  (The one error that is not of a
\* phase is that of UploadFile on a file it cannot read, with no request.)
C7_FailureAborts ==
    /\ \A i \in 1..Len(ulog) :
        ulog[i].err
            => /\ i = Len(ulog)
               /\ upc = "done"
               /\ uresult.kind = "error"
               /\ uresult.phase = ulog[i].kind
               /\ uresult.n = ulog[i].n
    /\ uresult.kind = "error" /\ uresult # ReadFileError
        => /\ ulog # <<>> /\ ulog[Len(ulog)].err
           /\ uresult.phase = "initiate" => Len(ulog) = 1
           /\ uresult.phase = "chunk"
                => /\ ~FinalizeSent
                   /\ \A i \in 1..Len(ulog) : ulog[i].n <= uresult.n
    /\ uresult.kind = "ok" => \A i \in 1..Len(ulog) : ~ulog[i].err
    /\ upc = "done" <=> uresult.kind \in {"ok", "error"}
    /\ uresult = ReadFileError => ulog = <<>>

\* The second of three chunks failed and the upload returned the error.
C7_Witness ==
    /\ uresult.kind = "error"
    /\ uresult.phase = "chunk"
    /\ uresult.n = 2
    /\ totalChunks = 3
    /\ Len(ulog) = 3

(***************************************************************************)
(* Claims about the artifact transaction uploader.                         *)
(***************************************************************************)
Letters == (65..90) \cup (97..122)

Digits == 48..57

\* Non-empty and made only of letters, digits, hyphen (45) and underscore (95)
WellFormedTxn(id) ==
    /\ id # <<>>
    /\ \A i \in 1..Len(id) : id[i] \in Letters \cup Digits \cup {45, 95}

\* C8: a call of UploadArtifact or GetTransactionStatus whose transaction id
\* is empty or holds a character other than a letter, a digit, '-' or '_'
\* issues no HTTP request and returns the invalid-transaction-ID error; so the
\* transaction id in the URL of any request issued is non-empty and made of
\* those characters only ('/' is 47, '.' is 46, ' ' is 32).
C8_TxnIdValidatedBeforeRequest ==
    /\ (tret.op \in {"UploadArtifact", "GetTransactionStatus"}
            /\ ~WellFormedTxn(tret.txn))
        => treq = NoReq /\ tret.kind = "invalid transaction ID"
    /\ treq # NoReq
        => /\ WellFormedTxn(treq.txn)
           /\ \A i \in 1..Len(treq.txn) : treq.txn[i] \notin {47, 46, 32}

\* UploadArtifact was called with an id holding a '/' and refused it without
\* a request.
C8_Witness ==
    /\ tret.op = "UploadArtifact"
    /\ \E i \in 1..Len(tret.txn) : tret.txn[i] = 47
    /\ tret.kind = "invalid transaction ID"
    /\ treq = NoReq

(***************************************************************************)
(* Claims about zip extraction.                                            *)
(***************************************************************************)
\* The entry's path resolves outside the destination directory.
Escapes(file) == ~IsPrefix(destDir, JoinPath(destDir, file.name))

\* C9: extractZip creates no file or directory outside the destination
\* directory, returns an error for every archive holding an entry whose path
\* resolves outside it, and never goes on to the entries after such an entry.
C9_ZipSlipRejected ==
    /\ \A p \in (zdirs \cup zfiles) \ Ancestors(destDir) : IsPrefix(destDir, p)
    /\ zret = "nil" => \A k \in 1..Len(zarchive) : ~Escapes(zarchive[k])
    /\ zret = "running" => \A k \in 1..(zi - 1) : ~Escapes(zarchive[k])

\* The same of the runs of the copy of extractZip with the checks alone.
CheckedExtractRejectsZipSlip == zchecked => C9_ZipSlipRejected

(***************************************************************************)
(* Claims about the credential store.                                      *)
(***************************************************************************)
\* An environment pair is available when both of its variables are set.
PairAvailable(a, b) == cenv[a] # "" /\ cenv[b] # ""

DirectPair == PairAvailable("VULNETIX_API_KEY", "VULNETIX_ORG_ID")

SigningPair == PairAvailable("VVD_ORG", "VVD_SECRET")

\* The fields the JSON object in the file of a store holds.
FileCreds(store) ==
    [OrgID  |-> Field(cfile[store].doc, "org_id"),
     APIKey |-> Field(cfile[store].doc, "api_key"),
     Secret |-> Field(cfile[store].doc, "secret"),
     Method |-> Field(cfile[store].doc, "method")]

\* A file is available when its path can be told and it is JSON with an org_id.
FileAvailable(store) ==
    /\ store = StoreHome => cenv["HOME"] # ""
    /\ cfile[store].state = "json"
    /\ FileCreds(store).OrgID # ""

\* C10: LoadCredentials returns the credentials of the first available source
\* in the order direct pair, signing pair, project file, home file, every
\* field taken from that one source; it reads no file when a pair is
\* available; and it returns not-found only when no source is available.
C10_FirstAvailableSource ==
    cret.kind # "none" =>
        /\ DirectPair =>
              /\ cret = [kind |-> "creds",
                         creds |-> [OrgID |-> cenv["VULNETIX_ORG_ID"],
                                    APIKey |-> cenv["VULNETIX_API_KEY"],
                                    Secret |-> "", Method |-> "apikey"]]
              /\ cread = {}
        /\ (~DirectPair /\ SigningPair) =>
              /\ cret = [kind |-> "creds",
                         creds |-> [OrgID |-> cenv["VVD_ORG"], APIKey |-> "",
                                    Secret |-> cenv["VVD_SECRET"], Method |-> "sigv4"]]
              /\ cread = {}
        /\ (~DirectPair /\ ~SigningPair /\ FileAvailable("project")) =>
              cret = [kind |-> "creds", creds |-> FileCreds("project")]
        /\ (~DirectPair /\ ~SigningPair /\ ~FileAvailable("project")
                /\ FileAvailable("home")) =>
              cret = [kind |-> "creds", creds |-> FileCreds("home")]
        /\ cret.kind = "notfound" <=>
              (~DirectPair /\ ~SigningPair /\ ~FileAvailable("project")
                   /\ ~FileAvailable("home"))

\* The project file was loaded with no pair set and no home file, while a
\* lone variable of each pair is set.
C10_Witness ==
    /\ cret.kind = "creds"
    /\ cret.creds.OrgID = "proj-org"
    /\ cread = {"project"}
    /\ cenv["VULNETIX_API_KEY"] # "" /\ cenv["VULNETIX_ORG_ID"] = ""
    /\ cfile["home"].state = "missing"

\* The file of the store is JSON but holds no org_id.
LacksOrgID(store) == cfile[store].state = "json" /\ FileCreds(store).OrgID = ""

\* C11: with no environment pair set, a credentials file without org_id
\* counts as a missing file: a project file without org_id makes
\* LoadCredentials go on to the home file (used when valid, not-found
\* otherwise), and a home file without org_id after an unavailable project
\* file gives not-found; LoadCredentials never stops at such a file.
C11_MissingOrgIdFallsThrough ==
    (cret.kind # "none" /\ ~DirectPair /\ ~SigningPair) =>
        /\ LacksOrgID("project") =>
              /\ "project" \in cread
              /\ cenv["HOME"] # "" => "home" \in cread
              /\ IF FileAvailable("home")
                 THEN cret = [kind |-> "creds", creds |-> FileCreds("home")]
                 ELSE cret = [kind |-> "notfound", creds |-> NoCreds]
        /\ (LacksOrgID("home") /\ ~FileAvailable("project")) =>
              cret = [kind |-> "notfound", creds |-> NoCreds]

\* A project file without org_id was passed over and the valid home file used.
C11_Witness ==
    /\ cret.kind = "creds"
    /\ LacksOrgID("project")
    /\ FileCreds("project").APIKey # ""
    /\ cret.creds = FileCreds("home")
    /\ cret.creds.OrgID = "home-org"
    /\ cread = {"project", "home"}

\* The credentials are valid: a known method, an organization id, and the
\* API key or the secret that goes with the method.
ValidCreds(c) ==
    /\ c.OrgID # ""
    /\ \/ c.Method = "apikey" /\ c.APIKey # ""
       \/ c.Method = "sigv4" /\ c.Secret # ""

\* LoadCredentials resolved from the store of the latest successful save.
ResolvedFromSavedStore ==
    /\ csave.kind = "nil"
    /\ cret.kind # "none"
    /\ csave.store \in cread
    /\ csave.store = "home" => ~FileAvailable("project")

\* C12: after SaveCredentials(creds, store) returned nil for valid credentials,
\* resolving from that store returns credentials equal to the saved ones in
\* every field.
C12_SaveLoadRoundTrip ==
    (ResolvedFromSavedStore /\ ValidCreds(csave.creds)) =>
        cret = [kind |-> "creds", creds |-> csave.creds]

\* C13: the credentials LoadCredentials returns have exactly one of APIKey and
\* Secret populated, the one named by the method: APIKey alone for apikey,
\* Secret alone for sigv4.
C13_ExactlyOneSecret ==
    cret.kind = "creds" =>
        \/ cret.creds.Method = "apikey" /\ cret.creds.APIKey # "" /\ cret.creds.Secret = ""
        \/ cret.creds.Method = "sigv4" /\ cret.creds.Secret # "" /\ cret.creds.APIKey = ""

(***************************************************************************)
(* Claims about the batch upload command.                                  *)
(***************************************************************************)
\* The calls of one kind, in the order they were made.
IsDownload(e) == e.kind = "download"

IsUpload(e) == e.kind = "upload"

Downloads == SelectSeq(glog, IsDownload)

Uploads == SelectSeq(glog, IsUpload)

\* The artifacts whose download and upload both succeeded.
Succeeded ==
    {i \in 1..Len(gartifacts) :
        /\ \E k \in 1..Len(Downloads) : Downloads[k].i = i /\ Downloads[k].ok
        /\ \E k \in 1..Len(Uploads) : Uploads[k].i = i /\ Uploads[k].ok}

\* C14: once the transaction is initiated the downloads are attempted for
\* artifacts 1, 2, ... in list order whatever failed before, until all are
\* through; the failures printed are exactly the failed attempts, each under
\* its own artifact; the command returns nil with every artifact attempted;
\* and the count it prints is the number of artifacts that succeeded.
C14_BatchContinuesPastFailures ==
    gtxn # "none" =>
        /\ \A k \in 1..Len(Downloads) : Downloads[k].i = k
        /\ Len(Downloads) \in {gi - 1, gi}
        /\ gfailed = {[i |-> glog[k].i, phase |-> glog[k].kind] :
                        k \in {j \in 1..Len(glog) :
                                 glog[j].kind \in {"download", "upload"} /\ ~glog[j].ok}}
        /\ gret.kind # "error"
        /\ gpc = "done" =>
              /\ gret.kind = "nil"
              /\ Len(Downloads) = Len(gartifacts)
              /\ gret.uploaded = Cardinality(Succeeded)
              /\ gret.total = Len(gartifacts)

\* The command returned after a failed download, a failed upload and a
\* success, in that order.
C14_Witness ==
    /\ gpc = "done"
    /\ gret = [kind |-> "nil", uploaded |-> 1, total |-> 3]
    /\ gfailed = {[i |-> 1, phase |-> "download"], [i |-> 2, phase |-> "upload"]}
    /\ gresults = <<3>>

\* C15: the extraction directory of an artifact is gone as soon as the loop is
\* through with that artifact, whether its upload succeeded or failed.
C15_DirRemovedAfterAttempt ==
    \A i \in 1..Len(gartifacts) :
        (gpc \in {"download", "upload", "done"} /\ gi > i) => i \notin gdirs

(***************************************************************************)
(* Claims about artifact retrieval.                                        *)
(***************************************************************************)
\* The steps that come after the temporary directory was created.
AfterCreation == {"newrequest", "transport", "status", "create", "copy", "extract"}

\* C16: when DownloadArtifact returned an error from a step after the
\* temporary directory was created, the directory and all it held are gone
\* and no path was returned; a path is returned only after extractZip
\* returned nil, and then the directory exists.
C16_ErrorExitRemovesTempDir ==
    /\ (dret.kind = "error" /\ dret.cause \in AfterCreation) =>
            ~dtmp /\ dinside = {}
    /\ dret.kind = "error" => ~dtmp
    /\ dret.kind = "path" => dtmp /\ dpc = "done" /\ "artifact.zip" \notin dinside
    /\ dret.kind # "none" <=> dpc = "done"

\* The extraction failed after writing entries into the directory.
C16_Witness ==
    /\ dret.kind = "error"
    /\ dret.cause = "extract"
    /\ "inside" \in dret.wrote
    /\ ~dtmp

(***************************************************************************)
(* Claims about the authenticated client.                                  *)
(***************************************************************************)
\* C17: a request DoRequest sent carries one Authorization header, chosen by
\* the method of the client.  With apikey it is "ApiKey <org id>:<api key>",
\* GetToken is not called, no token exchange is ever made and the token
\* cache stays as it was (empty).  With sigv4 it is "Bearer <token>" with the
\* token that the GetToken call of this request returned: one that was
\* cached, or the one it exchanged and stored.
C17_AuthByMethod ==
    /\ rclient.AuthMethod = "apikey" =>
          /\ nreq = 0
          /\ ncalls = 0
          /\ token = NoToken
          /\ rsrc = "none"
          /\ rreq.sent =>
                rreq.auth = [scheme |-> "ApiKey", org |-> rclient.OrgID,
                             key |-> rclient.APIKey, tok |-> 0]
    /\ (rclient.AuthMethod = "sigv4" /\ rreq.sent) =>
          /\ rsrc \in {"cache", "exchange"}
          /\ token.present
          /\ pc[DoCaller] = "done"
          /\ ret[DoCaller] = [kind |-> "token", tok |-> rreq.auth.tok, src |-> rsrc]
          /\ rreq.auth = [scheme |-> "Bearer", org |-> "", key |-> "",
                          tok |-> ret[DoCaller].tok]
          /\ rreq.auth.tok \in 1..nreq
          /\ rsrc = "exchange" <=> myreq[DoCaller]

\* An apikey client has sent its second request.
C17_Witness ==
    /\ rclient.AuthMethod = "apikey"
    /\ rcalls = 2
    /\ rpc = "sent"
    /\ rreq.auth.scheme = "ApiKey"
    /\ rreq.auth.key = "key-1"

\* The body parses as an object with the fields of the error envelope.
IsEnvelope(body) ==
    body \in {"{\"success\":false,\"error\":\"quota\",\"details\":\"weekly\"}", "{}"}

\* What the call returned is right for the response it got: the body and no
\* error exactly when the status is below 400; for a status of 400 or more
\* no body and an error with the status, and with the error and details
\* fields when the body is an error envelope, the raw body otherwise.
ResultFitsStatus ==
    /\ (rret.kind = "body" /\ rret.body = rresp.body) <=> rresp.status < 400
    /\ rresp.status >= 400 =>
          /\ rret.kind = "error" /\ rret.body = "" /\ rret.status = rresp.status
          /\ IF IsEnvelope(rresp.body)
             THEN /\ rret.raw = ""
                  /\ rresp.body = "{}" => rret.Error = "" /\ rret.Details = ""
                  /\ rresp.body # "{}" => rret.Error = "quota" /\ rret.Details = "weekly"
             ELSE rret.raw = rresp.body /\ rret.Error = "" /\ rret.Details = ""

\* C18 as stated: for every response DoRequest received, it returns the body
\* without error exactly when the status is below 400, and the error
\* described above for a status of 400 or more.
C18_BodyIffBelow400 ==
    (rpc = "done" /\ rresp.transport) => ResultFitsStatus

\* C18 as amended: the same for every response whose body was read in full;
\* a response whose body cannot be read gives an error and no body whatever
\* its status.
C18_BodyIffBelow400WhenRead ==
    /\ (rpc = "done" /\ rresp.transport /\ rresp.read) => ResultFitsStatus
    /\ (rpc = "done" /\ rresp.transport /\ ~rresp.read) =>
            rret.kind = "error" /\ rret.body = ""

\* A 429 with an error envelope was turned into an error.
C18_Witness ==
    /\ rpc = "done"
    /\ rresp.read
    /\ rret.kind = "error"
    /\ rret.status = 429
    /\ rret.Error = "quota"
    /\ rret.Details = "weekly"

(***************************************************************************)
(* Claims about the rate-limit headers.                                    *)
(***************************************************************************)
\* The header carries an integer.
IsInteger(v) == v \in {"0", "45"}

IntegerOf(v) == IF v = "45" THEN 45 ELSE 0

\* The field of the result a header goes to.
FieldOf(info, header) ==
    CASE header = "RateLimit-MinuteLimit"   -> info.MinuteLimit
      [] header = "RateLimit-Remaining"     -> info.Remaining
      [] header = "RateLimit-Reset"         -> info.Reset
      [] header = "RateLimit-WeekLimit"     -> info.WeekLimit
      [] header = "RateLimit-WeekRemaining" -> info.WeekRemaining
      [] OTHER                              -> info.WeekReset

\* C19: parseRateLimitHeaders gives Present = TRUE exactly when one of the
\* six headers carries an integer; every header that does sets its own field
\* and every other field is 0; with no such header the result is nil.
C19_RateLimitParsed ==
    hout.called =>
        /\ hout.info.Present <=> \E h \in RateLimitHeaders : IsInteger(hin[h])
        /\ hout.info.nil <=> ~hout.info.Present
        /\ \A h \in RateLimitHeaders :
              FieldOf(hout.info, h) = IF IsInteger(hin[h]) THEN IntegerOf(hin[h]) ELSE 0

\* Only RateLimit-Remaining: 45 was there, and one more header that is not
\* an integer.
C19_Witness ==
    /\ hout.called
    /\ hin["RateLimit-Remaining"] = "45"
    /\ hin["RateLimit-Reset"] = "soon"
    /\ \A h \in RateLimitHeaders \ {"RateLimit-Remaining", "RateLimit-Reset"} : hin[h] = ""
    /\ hout.info = [nil |-> FALSE, MinuteLimit |-> 0, Remaining |-> 45, Reset |-> 0,
                    WeekLimit |-> 0, WeekRemaining |-> 0, WeekReset |-> 0,
                    Present |-> TRUE]

(***************************************************************************)
(* Claims about the choice of path in UploadFile.                          *)
(***************************************************************************)
\* The requests of the single-chunk path: initiate declares one chunk, the
\* only chunk request is chunk 1 and carries the whole file.
SingleChunkPath ==
    /\ ulog # <<>> => ulog[1].totalChunks = 1
    /\ Len(ChunkReqs) <= 1
    /\ \A k \in 1..Len(ChunkReqs) :
          /\ ChunkReqs[k].n = 1
          /\ ChunkReqs[k].start = 0
          /\ ChunkReqs[k].end = fileSize

\* The requests of the split path: initiate declares ceil(S / 5 MB) chunks of
\* 5 MB, chunk k starts at (k - 1) * 5 MB and is 5 MB long, but for the last
\* one, which ends at the end of the file.
SplitPath ==
    LET piece == 5 * MiB
        N == CeilDiv(fileSize, piece)
    IN  /\ ulog # <<>> => ulog[1].totalChunks = N /\ ulog[1].chunkSize = piece
        /\ Len(ChunkReqs) <= N
        /\ \A k \in 1..Len(ChunkReqs) :
              /\ ChunkReqs[k].n = k
              /\ ChunkReqs[k].start = (k - 1) * piece
              /\ ChunkReqs[k].end = (IF k < N THEN k * piece ELSE fileSize)

\* The requests of an upload that returned a result: one initiate, then
\* chunks only, then one finalize.
InitiateChunkFinalize ==
    /\ Len(ulog) >= 3
    /\ ulog[1].kind = "initiate"
    /\ ulog[Len(ulog)].kind = "finalize"
    /\ \A i \in 2..(Len(ulog) - 1) : ulog[i].kind = "chunk"
    /\ SumLen(ChunkReqs) = fileSize

\* C20: UploadFile takes the single-chunk path exactly when the file is
\* smaller than 10 MB, and for every size of 10 MB or more splits the file
\* into 5 MB pieces with the last one cut to the remainder; on both paths an
\* upload that returns a result has sent initiate, the chunks and finalize.
\* The file is one that UploadFile could read.
C20_PathBySize ==
    (uentry = "UploadFile" /\ upc # "idle" /\ uresult # ReadFileError) =>
        /\ upath = "simple" <=> fileSize < 10 * MiB
        /\ upath = "chunked" <=> fileSize >= 10 * MiB
        /\ fileSize < 10 * MiB => SingleChunkPath
        /\ fileSize >= 10 * MiB => SplitPath
        /\ uresult.kind = "ok" => InitiateChunkFinalize

\* UploadFile of a file of exactly 10 MB returned a result after two chunks
\* of 5 MB.
C20_Witness ==
    /\ uentry = "UploadFile"
    /\ fileSize = 10 * MiB
    /\ uresult.kind = "ok"
    /\ Len(ChunkReqs) = 2
    /\ ChunkLen(ChunkReqs[1]) = 5 * MiB
    /\ ChunkLen(ChunkReqs[2]) = 5 * MiB

\* UploadFile of a file one byte short of 10 MB returned a result after one
\* chunk holding all of it.
C20_SmallWitness ==
    /\ uentry = "UploadFile"
    /\ fileSize = 10 * MiB - 1
    /\ uresult.kind = "ok"
    /\ Len(ulog) = 3
    /\ ChunkLen(ChunkReqs[1]) = fileSize

(***************************************************************************)
(* Claims about the error of a failed upload.                              *)
(***************************************************************************)
\* The phase an error text speaks of.
MessagePhase(msg) ==
    CASE msg \in {"failed to initiate chunked upload", "failed to initiate upload"}
            -> "initiate"
      [] msg \in {"failed to upload chunk %d/%d", "failed to upload data"}
            -> "chunk"
      [] msg \in {"failed to finalize chunked upload", "failed to finalize upload"}
            -> "finalize"
      [] OTHER -> "none"

\* The request that failed: the last one sent.
FailedRequest == ulog[Len(ulog)]

\* The error names the phase of the failed request, carries the 1-based index
\* of the chunk when a chunk request failed, and wraps the error of the call.
ErrorNamesPhase ==
    /\ ulog # <<>>
    /\ FailedRequest.err
    /\ MessagePhase(uresult.msg) = FailedRequest.kind
    /\ FailedRequest.kind = "chunk" =>
          /\ FailedRequest.n >= 1
          /\ uresult.idx = FailedRequest.n
    /\ uresult.cause \in Outcomes \ {"ok"}

\* C21: the error returned by a failed upload identifies the phase that
\* failed: initiate, chunk N with N the 1-based index of the chunk whose
\* request failed, or finalize, and wraps the underlying error.  An upload
\* has failed in a phase when the call of that phase returned an error;
\* UploadFile on a file it cannot read returns before any phase.
C21_ErrorNamesPhase ==
    (uresult.kind = "error" /\ uresult.phase \in {"initiate", "chunk", "finalize"})
        => ErrorNamesPhase

\* What ChunkedUpload keeps of it: its errors name the phase, and the error
\* of a failed chunk request says "chunk N/T" with N the 1-based index of
\* that chunk and T the number of chunks.
ChunkedUploadNamesChunk ==
    (upath = "chunked" /\ uresult.kind = "error") =>
        /\ ErrorNamesPhase
        /\ FailedRequest.kind = "chunk" => uresult.of = totalChunks

\* What SimpleUpload returns when its one chunk request fails: "failed to
\* upload data", with no chunk index in it.
SimpleUploadChunkError ==
    (upath = "simple" /\ uresult.kind = "error" /\ uresult.phase = "chunk") =>
        /\ uresult.msg = "failed to upload data"
        /\ uresult.n = 1
        /\ uresult.idx = 0

(***************************************************************************)
(* Claims about retries.                                                   *)
(***************************************************************************)
\* C22: within one UploadFile call initiate is sent at most once, each chunk
\* index at most once and finalize at most once, whatever the requests
\* returned; and one DoRequest call calls HTTPClient.Do at most once, and not
\* again after the response came.
C22_NoRequestRepeated ==
    /\ uentry = "UploadFile" =>
          \A i, j \in 1..Len(ulog) :
              (ulog[i].kind = ulog[j].kind /\ ulog[i].n = ulog[j].n) => i = j
    /\ rdo <= 1
    /\ rpc = "done" => rdo = (IF rreq.sent THEN 1 ELSE 0)

\* UploadFile of a file of three chunks: the second chunk request came back
\* with a status of 400 or more, and the upload returned after three
\* requests.
C22_Witness ==
    /\ uentry = "UploadFile"
    /\ totalChunks = 3
    /\ upc = "done"
    /\ uresult.phase = "chunk"
    /\ uresult.n = 2
    /\ uresult.cause = "http"
    /\ Len(ulog) = 3

\* DoRequest got a 429 and returned its error after one request.
C22_DoWitness ==
    /\ rpc = "done"
    /\ rresp.status = 429
    /\ rret.kind = "error"
    /\ rdo = 1

(***************************************************************************)
(* Claims about GetArtifactStatus.                                         *)
(***************************************************************************)
\* GetArtifactStatus issued its one request: a GET to the status path of the
\* artifact with the UUID of the call.
OneStatusGet ==
    /\ sreq.method = "GET"
    /\ sreq.route = "artifact/{uuid}/status"
    /\ sreq.uuid = tret.txn

\* C23 as stated: GetArtifactStatus with the empty UUID returns the
\* empty-UUID error and issues no request; with every non-empty UUID it
\* issues one GET to the status path of that artifact.
C23_EmptyUuidNoRequest ==
    tret.op = "GetArtifactStatus" =>
        /\ tret.txn = <<>> =>
              sreq = NoStatusReq /\ tret.kind = "artifact UUID cannot be empty"
        /\ tret.txn # <<>> => OneStatusGet

\* The UUID can stand in a URL path as it is: no control character and none
\* of '?', '#', '%'.
PlainUuid(uuid) ==
    \A i \in 1..Len(uuid) : ~IsCTL(uuid[i]) /\ uuid[i] \notin {35, 37, 63}

\* The UUID has the character somewhere.
Holds(uuid, chars) == \E i \in 1..Len(uuid) : uuid[i] \in chars

\* The UUID has a control character with no '#' before it.
ControlBeforeFragment(uuid) ==
    \E i \in 1..Len(uuid) :
        IsCTL(uuid[i]) /\ \A j \in 1..(i - 1) : uuid[j] # 35

\* C23 as amended: the same for the empty UUID; with a non-empty UUID that
\* holds no control character and none of '?', '#', '%' the call issues one
\* GET to the status path of that artifact; a UUID with a control character
\* that no '#' precedes gives the failed-to-create-request error and no
\* request, and that error comes only for a UUID with a control character or
\* a '%'; a UUID with a '?' or a '#' for which the request is made gives a
\* GET whose path ends before the first of them.
C23_EmptyUuidNoRequestPlainUuidOneGet ==
    tret.op = "GetArtifactStatus" =>
        /\ tret.txn = <<>> =>
              sreq = NoStatusReq /\ tret.kind = "artifact UUID cannot be empty"
        /\ (tret.txn # <<>> /\ PlainUuid(tret.txn)) => OneStatusGet
        /\ ControlBeforeFragment(tret.txn) =>
              sreq = NoStatusReq /\ tret.kind = "failed to create request"
        /\ tret.kind = "failed to create request" =>
              sreq = NoStatusReq /\ Holds(tret.txn, {10, 37})
        /\ (Holds(tret.txn, {35, 63}) /\ tret.kind # "failed to create request") =>
              /\ sreq.method = "GET"
              /\ sreq.route = "artifact/{uuid}"
              /\ Len(sreq.uuid) < Len(tret.txn)
              /\ tret.txn[Len(sreq.uuid) + 1] \in {35, 63}
              /\ sreq.uuid = SubSeq(tret.txn, 1, Len(sreq.uuid))
              /\ ~Holds(sreq.uuid, {35, 63})

\* GetArtifactStatus("a#") sent its GET to the path that ends at "a".
C23_FragmentWitness ==
    /\ tret.op = "GetArtifactStatus"
    /\ tret.txn = <<97, 35>>
    /\ sreq.route = "artifact/{uuid}"
    /\ sreq.uuid = <<97>>

\* GetArtifactStatus("%") returned the failed-to-create-request error.
C23_EscapeWitness ==
    /\ tret.op = "GetArtifactStatus"
    /\ tret.txn = <<37>>
    /\ tret.kind = "failed to create request"
    /\ sreq = NoStatusReq

\* GetArtifactStatus("a-") got its answer from one GET.
C23_Witness ==
    /\ tret.op = "GetArtifactStatus"
    /\ tret.txn = <<97, 45>>
    /\ tret.kind = "ok"
    /\ OneStatusGet

\* GetArtifactStatus("") returned the empty-UUID error.
C23_EmptyWitness ==
    /\ tret.op = "GetArtifactStatus"
    /\ tret.txn = <<>>
    /\ tret.kind = "artifact UUID cannot be empty"
    /\ sreq = NoStatusReq

(***************************************************************************)
(* Claims about validateTxnID.                                             *)
(***************************************************************************)
\* C24: validateTxnID accepts exactly the non-empty strings made only of
\* ASCII letters, digits, '-' and '_': it refuses the empty string as empty
\* and every string with any other character ('@' is 64, ' ' 32, '/' 47,
\* '.' 46) for its format; and the calls that validate their transaction id
\* return the invalid-transaction-ID error exactly for the ids refused.  The
\* ids are those the calls were made with.
C24_ValidateTxnIdAcceptsExactly ==
    tret.op \in {"UploadArtifact", "GetTransactionStatus"} =>
        LET id == tret.txn
        IN  /\ validateTxnID(id) = "nil" <=> WellFormedTxn(id)
            /\ validateTxnID(id) = "empty" <=> id = <<>>
            /\ validateTxnID(id) = "format" <=>
                  \E i \in 1..Len(id) : id[i] \notin Letters \cup Digits \cup {45, 95}
            /\ tret.kind = "invalid transaction ID" <=> ~WellFormedTxn(id)

\* GetTransactionStatus("a@") was refused, and so "a@" is among the ids
\* validateTxnID refuses for their format.
C24_Witness ==
    /\ tret.op = "GetTransactionStatus"
    /\ tret.txn = <<97, 64>>
    /\ tret.kind = "invalid transaction ID"
    /\ validateTxnID(tret.txn) = "format"

(***************************************************************************)
(* Claims about the size and the name of a downloaded artifact.            *)
(***************************************************************************)
\* DownloadArtifact was called with a token and has gone past its first
\* check.
DownloadStarted == dpc # "start" /\ dret.cause # "token"

\* C25: DownloadArtifact refuses an artifact whose declared size is above
\* 1 GB with the exceeds-maximum-allowed-size error, and has then created no
\* temporary directory and issued no download request.
C25_OversizeRejected ==
    (DownloadStarted /\ dart.SizeInBytes > maxArtifactSize) =>
        /\ dpc = "done"
        /\ dret.kind = "error"
        /\ dret.cause = "size"
        /\ ~dtmp

\* The part of the name of the temporary directory that came from the
\* artifact name.
DirComponent ==
    IF dchecked THEN SanitizedDirComponent(dart.Name) ELSE TempDirComponent(dart.Name)

\* Letters, digits, '-', '_' and '.' only, not empty, no leading dot.
SafeComponent(chars) ==
    /\ chars # <<>>
    /\ chars[1] # 46
    /\ \A i \in 1..Len(chars) :
          chars[i] \in (65..90) \cup (97..122) \cup (48..57) \cup {45, 95, 46}

\* C26: the part of the name of the temporary directory that comes from the
\* artifact name holds only letters, digits, '-', '_' and '.', does not
\* start with a dot and is not empty, whatever the artifact name.
C26_DirNameSanitized ==
    (DownloadStarted /\ dret.cause # "mkdirtemp") =>
        SafeComponent(DirComponent)

\* The size and the name of the calls of the copy of DownloadArtifact with
\* the checks alone, which also leave nothing outside the directory.
CheckedDownloadGuards ==
    dchecked => (C25_OversizeRejected /\ C26_DirNameSanitized /\ ~doutside)

(***************************************************************************)
(* Claims about the credentials files on disk.                             *)
(***************************************************************************)
\* No permission bit for the group or for others.
OwnerOnly(mode) == mode # 0 /\ mode % 64 = 0

\* C27: after a SaveCredentials call that returned nil, the credentials file
\* of the store is readable and writable by its owner only and the directory
\* it is in is accessible by its owner only, whatever they were before.
C27_SavedFileOwnerOnly ==
    csave.kind = "nil" =>
        /\ cperm[csave.store].file = OwnerOnlyFile
        /\ OwnerOnly(cperm[csave.store].dir)

\* What holds of every RemoveCredentials call: a file that was not there is
\* no error, the call returns an error exactly when some deletion failed, and
\* the file of every location whose deletion was attempted and did not fail
\* is gone.
RemoveIgnoresNotFound ==
    /\ crm.kind = "error" <=> crm.failed # {}
    /\ \A st \in crm.tried \ crm.failed : cfile[st].state = "missing"
    /\ crm.failed \subseteq crm.tried

\* C28 as stated: RemoveCredentials attempts deletion at the home and at the
\* project location whatever happens at the other, ignores a file that is not
\* there, puts every other deletion error into the error it returns, and
\* when it returns nil neither file exists.
C28_RemoveBothAggregate ==
    crm.kind # "none" =>
        /\ crm.tried = {"home", "project"}
        /\ RemoveIgnoresNotFound
        /\ crm.named = crm.failed
        /\ crm.kind = "nil" => \A st \in {"home", "project"} : cfile[st].state = "missing"

\* C28 as amended: deletion is attempted at the project location and, when
\* the home directory can be determined, at the home location, whatever
\* happens at the other; a file that is not there is no error; the call
\* returns an error exactly when some deletion failed for another reason, and
\* that error is the one of the last location that failed (project after
\* home); when it returns nil no file exists at a location it attempted.
C28_RemoveAttemptedLastError ==
    crm.kind # "none" =>
        /\ "project" \in crm.tried
        /\ "home" \in crm.tried <=> cenv["HOME"] # ""
        /\ RemoveIgnoresNotFound
        /\ crm.named = (IF "project" \in crm.failed THEN {"project"}
                        ELSE IF "home" \in crm.failed THEN {"home"} ELSE {})
        /\ crm.kind = "nil" => \A st \in crm.tried : cfile[st].state = "missing"

\* The deletion failed at the home location and the project file was
\* removed all the same.
C28_Witness ==
    /\ crm.kind = "error"
    /\ crm.failed = {"home"}
    /\ crm.removed = {"project"}
    /\ cfile["project"].state = "missing"
    /\ cfile["home"].state # "missing"
(***************************************************************************)
(* C29: the token caches of distinct Client instances are independent: a   *)
(* GetToken or DoRequest call on one client never reads, returns or        *)
(* modifies the cached token of another client, so two clients for         *)
(* different organizations used in one process never present each other's  *)
(* token.                                                                  *)
(***************************************************************************)
\* A call on the client c made a step.
ClientActed(c) == kcalls'[c] # kcalls[c] \/ kpc'[c] # kpc[c]

OwnTokensOnly ==
    \A c \in Clients :
        /\ ktouched[c] \subseteq {c}
        /\ ktoken[c].present => ktoken[c].Token.sub = OrgOf(c)
        /\ \A g \in Goroutines :
              /\ kret[c][g].kind = "token" => kret[c][g].tok.sub = OrgOf(c)
              /\ \A d \in Clients \ {c} :
                    /\ ktoken[d].present => kret[c][g].tok # ktoken[d].Token
                    /\ \A h \in Goroutines :
                          kret[d][h].kind = "token" /\ kret[c][g].kind = "token"
                              => kret[c][g].tok # kret[d][h].tok

OthersCacheKept ==
    \A c \in Clients :
        ClientActed(c) => \A d \in Clients \ {c} : ktoken'[d] = ktoken[d]

C29_ClientCachesIndependent == []OwnTokensOnly /\ [][OthersCacheKept]_vars

\* Both clients hold a token, and on each a goroutine that found the cache
\* stale under the read lock has been given the token another goroutine of
\* the same client stored meanwhile.
C29_Witness ==
    \A c \in Clients :
        /\ ktoken[c].present
        /\ kcalls[c] = 2
        /\ \E g \in Goroutines :
              /\ kret[c][g].kind = "token"
              /\ kret[c][g].src = "recheck"
              /\ kret[c][g].tok = ktoken[c].Token
              /\ kret[c][g].tok.sub = OrgOf(c)

(***************************************************************************)
(* C30: the request signature is a deterministic function of {HTTP method, *)
(* path, body, timestamp, secret}: signing twice with identical inputs     *)
(* yields identical signatures and Authorization headers, and changing any *)
(* single one of those inputs changes the signature.                       *)
(***************************************************************************)
SignFields == {"method", "path", "body", "time", "secret"}

TwoSignings == sgprev.done /\ sgcur.done

\* The named inputs in which the two signings differ.
Changed == {f \in SignFields : sgprev.in[f] # sgcur.in[f]}

\* As stated.
C30_SignatureDeterministicSensitive ==
    TwoSignings =>
        /\ Changed = {} => sgprev.sig = sgcur.sig /\ sgprev.auth = sgcur.auth
        /\ Cardinality(Changed) = 1 => sgprev.sig # sgcur.sig

\* What the signature is made of: the second of the timestamp, and the
\* secret up to zero bytes at its end while "AWS4" and the secret fit the
\* 128-byte block of the hash.
SameSecond(t, u) == t.day = u.day /\ t.sec = u.sec

FitsBlock(k) == 4 + Len(k) <= 128

RECURSIVE TrimZeros(_)
TrimZeros(key) ==
    IF key # <<>> /\ key[Len(key)] = 0
    THEN TrimZeros(SubSeq(key, 1, Len(key) - 1))
    ELSE key

SameKey(k, l) ==
    \/ k = l
    \/ FitsBlock(k) /\ FitsBlock(l) /\ TrimZeros(k) = TrimZeros(l)

\* The inputs in which the two signings differ in what is signed.
ChangedSigned ==
    {f \in SignFields \ {"time", "secret"} : sgprev.in[f] # sgcur.in[f]}
    \cup (IF SameSecond(sgprev.in.time, sgcur.in.time) THEN {} ELSE {"time"})
    \cup (IF SameKey(sgprev.in.secret, sgcur.in.secret) THEN {} ELSE {"secret"})

\* Amended: identical inputs give identical signatures and, for the same
\* OrgID, identical Authorization headers; changing the method, the path,
\* the body, the second of the timestamp, or the secret by more than zero
\* bytes at its end within the block, changes the signature.
C30_SignatureOfSecondAndPaddedSecret ==
    TwoSignings =>
        /\ Changed = {} => /\ sgprev.sig = sgcur.sig
                           /\ sgprev.in.org = sgcur.in.org
                                 => sgprev.auth = sgcur.auth
        /\ ChangedSigned = {} => sgprev.sig = sgcur.sig
        /\ Cardinality(Changed) = 1 /\ ChangedSigned # {}
              => sgprev.sig # sgcur.sig

\* Two signings that differ in the path alone, with different signatures.
C30_Witness ==
    /\ TwoSignings
    /\ Changed = {"path"}
    /\ sgprev.sig # sgcur.sig

\* Two signings whose secrets differ by a zero byte at the end that takes
\* the key over the block: the signatures differ.
C30_LongSecretWitness ==
    /\ TwoSignings
    /\ Changed = {"secret"}
    /\ Len(sgprev.in.secret) = 124 /\ Len(sgcur.in.secret) = 125
    /\ TrimZeros(sgprev.in.secret) = TrimZeros(sgcur.in.secret)
    /\ sgprev.sig # sgcur.sig

\* Two signings whose secrets differ by a zero byte at the end.
C30_PaddedSecretWitness ==
    /\ TwoSignings
    /\ Changed = {"secret"}
    /\ ChangedSigned = {}
    /\ sgprev.sig = sgcur.sig

(***************************************************************************)
(* Claims about the order of the calls of runGHAUpload.                    *)
(***************************************************************************)
IsInitiate(c) == c.kind = "initiate"

Initiates == SelectSeq(glog, IsInitiate)

\* The positions in the log of the artifact downloads and uploads.
ArtifactCalls == {k \in 1..Len(glog) : glog[k].kind \in {"download", "upload"}}

\* C31: no artifact is downloaded or uploaded before the transaction
\* initiate call has succeeded; when initiating fails the command returns an
\* error and makes no artifact download or upload; every artifact upload
\* carries the transaction id returned by that single initiate call.
C31_InitiateBeforeArtifacts ==
    /\ Len(Initiates) <= 1
    /\ \A k \in ArtifactCalls :
          \E j \in 1..(k - 1) : glog[j].kind = "initiate" /\ glog[j].ok
    /\ (Len(Initiates) = 1 /\ ~Initiates[1].ok) =>
          /\ gpc = "done"
          /\ gret.kind = "error"
          /\ ArtifactCalls = {}
          /\ gtxn = "none"
    /\ (Len(Initiates) = 1 /\ Initiates[1].ok) => gtxn \in ServerTxnIds
    /\ \A k \in 1..Len(Uploads) : Uploads[k].txn = gtxn /\ gtxn \in ServerTxnIds

\* Two artifacts were uploaded under the transaction "txn-2".
C31_Witness ==
    /\ gpc = "done"
    /\ gtxn = "txn-2"
    /\ Len(Uploads) = 2
    /\ \A k \in 1..2 : Uploads[k].txn = "txn-2"

\* The initiate call failed and the command returned.
C31_FailedWitness ==
    /\ Len(Initiates) = 1
    /\ ~Initiates[1].ok
    /\ gret.kind = "error"

\* ListArtifacts succeeded with an empty list.
NoArtifactsListed ==
    /\ Len(glog) >= 1
    /\ glog[1].kind = "list"
    /\ glog[1].ok
    /\ gartifacts = <<>>

\* C39: when the workflow run has no artifacts, runGHAUpload initiates no
\* transaction, makes no download or upload request, and completes without
\* error.
C39_NoArtifactsNoCalls ==
    NoArtifactsListed =>
        /\ gpc = "done"
        /\ gret.kind = "nil"
        /\ Len(glog) = 1
        /\ gtxn = "none"

C39_Witness ==
    /\ NoArtifactsListed
    /\ gpc = "done"
    /\ gret = [kind |-> "nil", uploaded |-> 0, total |-> 0]

(***************************************************************************)
(* Claims about how the token cache changes.                               *)
(***************************************************************************)
\* The caller c, holding the exclusive lock after a re-check that found the
\* stored entry empty or stale, returns from a successful token exchange.
ExchangeReturns(c) ==
    /\ pc[c] = "inflight"
    /\ writer = c
    /\ readers = {}
    /\ chk[c].cache = token
    /\ ~FreshAtCheck(c)
    /\ pc'[c] = "done"
    /\ ret'[c].kind = "token"
    /\ ret'[c].src = "exchange"

\* C32: the token cache entry changes only inside a GetToken call that found
\* it empty or stale while holding the exclusive lock, and only by replacing
\* token and expiry together with the values of a successful token-exchange
\* response; no background activity refreshes it and the expiry of an
\* existing entry is never extended in place.
C32_CacheReplacedOnlyByExchange ==
    [][ /\ token' # token =>
            /\ \E c \in Callers : ExchangeReturns(c) /\ token'.Token = ret'[c].tok
            /\ token'.present
            /\ token'.Token # token.Token
            /\ now' = now
        /\ (token.present /\ token'.ExpiresAt # token.ExpiresAt)
                => token'.Token # token.Token
        /\ now' # now => token' = token
      ]_vars

\* A stale entry has been replaced by the token of a later exchange, with a
\* later expiry.
C32_Witness ==
    /\ token.present
    /\ token.Token >= 2
    /\ staleSeen
    /\ token.ExpiresAt > SafetyMarginMin + 2

(***************************************************************************)
(* Claims about the locking of GetToken.                                   *)
(***************************************************************************)
InGetToken(c) == pc[c] \in {"rlocked", "wantlock", "locked", "inflight"}

\* The locks a caller holds at each point of GetToken: the shared lock only
\* up to the first check, the exclusive lock only from Lock() to the return.
LocksByPosition ==
    \A c \in Callers :
        /\ c \in readers <=> pc[c] = "rlocked"
        /\ writer = c <=> pc[c] \in {"locked", "inflight"}

\* C37: GetToken never requests the exclusive lock while still holding the
\* shared lock and releases every lock it took on every return path, so
\* concurrent GetToken callers cannot deadlock: provided each token-exchange
\* HTTP call returns, every GetToken call eventually returns with either a
\* token or an error.
C37_GetTokenReturns ==
    /\ []LocksByPosition
    /\ \A c \in Callers :
          InGetToken(c) ~> (pc[c] = "done" /\ ret[c].kind \in {"token", "error"})
    /\ []<>(writer = 0 /\ readers = {})

\* Both callers went through the exclusive lock, one after the other, and
\* returned: one with an error, one with a token; no lock is held.
C37_Witness ==
    \E c, d \in Callers :
        /\ c # d
        /\ pc[c] = "done" /\ pc[d] = "done"
        /\ myreq[c] /\ myreq[d]
        /\ ret[c].kind = "error" /\ ret[d].kind = "token"
        /\ writer = 0 /\ readers = {}

(***************************************************************************)
(* Claims about DoRequest when no token can be had.                        *)
(***************************************************************************)
\* The GetToken call of the DoRequest under way has returned an error.
GetTokenFailed ==
    rpc = "token" /\ pc[DoCaller] = "done" /\ ret[DoCaller].kind = "error"

\* The step is the write of LastRateLimit by the DoRequest of another
\* goroutine, which got its response.
OtherResponseStep ==
    /\ \E c \in OtherCallers : opc[c] = "sent" /\ opc'[c] = "idle"
    /\ rpc' = rpc
    /\ pc'[DoCaller] = pc[DoCaller]
    /\ ret'[DoCaller] = ret[DoCaller]

\* C38: with the signing method, when GetToken fails DoRequest returns an
\* error without sending the API request, and LastRateLimit keeps the value
\* it had before the call: no step of the call changes it, from its start to
\* its return (a DoRequest of another goroutine that gets its response
\* meanwhile stores its own).
C38_TokenFailureSendsNothing ==
    [][ /\ (GetTokenFailed /\ rpc' # rpc) =>
            /\ rclient.AuthMethod # DirectAPIKey
            /\ rpc' = "done"
            /\ rret' = ErrorReturn("token")
            /\ ~rreq'.sent
            /\ rdo' = 0
            /\ token' = token
            /\ rlast' = rlast
        /\ (rpc = "token" /\ rpc' = "done") => GetTokenFailed
        /\ (rpc = "token" \/ rpc' = "token") =>
            /\ rlast' # rlast => OtherResponseStep
            /\ rdo' = 0 \/ rpc' = "sent"
      ]_vars

\* A sigv4 client whose first call stored rate-limit values has returned the
\* token error from its second call, with those values still in place.
C38_Witness ==
    /\ rclient.AuthMethod = SigV4
    /\ rcalls = 2
    /\ rpc = "done"
    /\ rret = ErrorReturn("token")
    /\ ~rreq.sent
    /\ rlast.Present
    /\ nfail = 1

(***************************************************************************)
(* Claims about the login command.                                         *)
(***************************************************************************)
\* C35: login persists credentials only after the authentication test has
\* succeeded: if validation of method, org id, secret or store fails, or the
\* authentication test fails, SaveCredentials is never called and the stored
\* credential files are left unchanged.  The test of SigV4 credentials has
\* succeeded when the token exchange was answered 200 with a body that reads
\* and parses; the test of an API key when the request was answered with a
\* status other than 401 and 403.
C35_SaveOnlyAfterTest ==
    /\ csave # NoSave => lin.valid /\ lin.tested /\ lret.kind = "tested"
    /\ lret.kind = "tested" => lin.valid /\ lin.tested
    /\ (lret.kind = "tested" /\ lret.creds.Method = SigV4) =>
          /\ lin.probe.transport
          /\ lin.probe.status = 200
          /\ lin.probe.body = "object"
    /\ (lret.kind = "tested" /\ lret.creds.Method = DirectAPIKey) =>
          /\ lret.creds.APIKey # ""
          /\ lin.probe.transport
          /\ lin.probe.status \notin {401, 403}
    /\ (lin.given /\ ~(lin.valid /\ lin.tested)) =>
          /\ lret.kind = "error"
          /\ csave = NoSave
          /\ cfile = lin.files
          /\ cperm = lin.perm

\* The authentication test failed over a stored credentials file, which is
\* still there.
C35_Witness ==
    /\ lret = LoginError("authentication test failed")
    /\ lin.valid
    /\ cfile[StoreProject].state = "json"
    /\ cfile = lin.files
    /\ csave = NoSave

\* The token endpoint answered the test of valid SigV4 credentials with a
\* 200 whose body is no JSON object; the login returned the error and saved
\* nothing.
C35_UnparsedTokenWitness ==
    /\ lin.valid
    /\ lin.probe = [transport |-> TRUE, status |-> 200, body |-> "garbage"]
    /\ lret = LoginError("authentication test failed")
    /\ csave = NoSave
    /\ cfile = lin.files

\* The credentials were saved after a successful test.
C35_SavedWitness ==
    /\ lret.kind = "tested"
    /\ lret.creds.Method = SigV4
    /\ csave.kind = "nil"
    /\ cfile # lin.files

(***************************************************************************)
(* Claims about the ArtifactUploader and the upload client.                *)
(***************************************************************************)
UploaderAnswered == aup.kind = "uploader" /\ Len(areq) = 1 /\ aresp.got

\* The response is one the uploader accepts: it arrived and was read, its
\* status is 200 or 201, its body is JSON and carries success = true.
AcceptedResponse ==
    /\ aresp.transport /\ aresp.read
    /\ aresp.status \in {200, 201}
    /\ aresp.body.state # "garbage"
    /\ "success" \in DOMAIN aresp.body.doc
    /\ aresp.body.doc["success"] = "true"

\* C33: InitiateTransaction and UploadArtifact return a result only when the
\* response status is 200 or 201 and the decoded body has success = true;
\* any other status, an undecodable body or success = false gives an error
\* and no result, so no transaction id and no artifact UUID is reported from
\* a rejected response.
C33_ResultOnlyFromAcceptedResponse ==
    /\ aret.kind = "result" => UploaderAnswered /\ AcceptedResponse
    /\ UploaderAnswered /\ ~AcceptedResponse =>
          aret.kind = "error" /\ aret.TxnID = "" /\ aret.UUID = ""
    /\ UploaderAnswered /\ AcceptedResponse => aret.kind = "result"

\* A transaction id is reported from an accepted response.
C33_Witness ==
    /\ UploaderAnswered /\ AcceptedResponse
    /\ areq[1].op = "InitiateTransaction"
    /\ aret.kind = "result" /\ aret.TxnID = "txn-1"

\* A 200 response whose body carries an id and success = false is an error.
C33_RejectedWitness ==
    /\ UploaderAnswered
    /\ aresp.status = 200 /\ aresp.body.state = "json"
    /\ DOMAIN aresp.body.doc = {"txnid", "uuid", "success"}
    /\ aresp.body.doc["success"] = "false"
    /\ aret.kind = "error" /\ aret.TxnID = "" /\ aret.UUID = ""

\* Central resolution finds credentials: the VULNETIX pair, the VVD pair, or
\* a credentials file that loads.
ResolutionSucceeds ==
    \/ cenv["VULNETIX_API_KEY"] # "" /\ cenv["VULNETIX_ORG_ID"] # ""
    \/ cenv["VVD_ORG"] # "" /\ cenv["VVD_SECRET"] # ""
    \/ \E store \in {StoreProject, StoreHome} : ~loadFromFile(cenv, cfile, store).err

\* The credentials built from VULNETIX_API_KEY and the org-id argument.
LegacyCredentials ==
    SomeCreds(Credentials(aup.orgID, cenv["VULNETIX_API_KEY"], "", DirectAPIKey))

HoldsStaticHeaderCredentials == ~aup.creds.nil /\ aup.creds.c.Method = DirectAPIKey

\* C34: NewArtifactUploader uses the centrally resolved credentials when
\* resolution succeeds; only when it fails and VULNETIX_API_KEY is set does
\* it build static-header credentials from that key and the org-id argument;
\* the requests of an uploader holding static-header credentials carry
\* Authorization "ApiKey <org id>:<api key>".
C34_UploaderCredentials ==
    aup.kind = "uploader" =>
        /\ ResolutionSucceeds => aup.creds = ResolvedCredentials(cenv, cfile)
        /\ ~ResolutionSucceeds /\ cenv["VULNETIX_API_KEY"] # "" =>
              aup.creds = LegacyCredentials
        /\ ~ResolutionSucceeds /\ cenv["VULNETIX_API_KEY"] = "" => aup.creds.nil
        /\ HoldsStaticHeaderCredentials =>
              \A i \in 1..Len(areq) :
                  /\ "Authorization" \in DOMAIN areq[i].headers
                  /\ areq[i].headers["Authorization"] =
                        ApiKeyAuth(aup.creds.c.OrgID, aup.creds.c.APIKey)

\* Resolution failed with VULNETIX_API_KEY set, and the request carries the
\* org-id argument and the key.
C34_Witness ==
    /\ aup.kind = "uploader" /\ ~ResolutionSucceeds
    /\ aup.creds = SomeCreds(Credentials("arg-org", "env-key", "", DirectAPIKey))
    /\ Len(areq) = 1
    /\ areq[1].headers["Authorization"] = ApiKeyAuth("arg-org", "env-key")

\* Resolution succeeded with VULNETIX_API_KEY set, and the resolved
\* credentials are the ones held.
C34_ResolvedWitness ==
    /\ aup.kind = "uploader" /\ cenv["VULNETIX_API_KEY"] # ""
    /\ ~aup.creds.nil /\ aup.creds.c.Method = SigV4
    /\ Len(areq) = 1

\* C36: with resolved credentials of the signing method, the requests of the
\* upload client and of the ArtifactUploader carry no Authorization header
\* and no token exchange is made for them; only static-header credentials
\* put an Authorization header on these requests.
C36_SigningMethodSendsNoAuthorization ==
    \A i \in 1..Len(areq) :
        /\ ~aup.creds.nil /\ aup.creds.c.Method = SigV4 =>
              /\ "Authorization" \notin DOMAIN areq[i].headers
              /\ areq[i].route # "auth/token"
              /\ token = NoToken /\ nreq = 0
        /\ "Authorization" \in DOMAIN areq[i].headers =>
              /\ HoldsStaticHeaderCredentials
              /\ areq[i].headers["Authorization"].scheme = "ApiKey"

\* The upload client sent a request with signing-method credentials.
C36_Witness ==
    /\ aup.kind = "client" /\ aup.creds.c.Method = SigV4
    /\ Len(areq) >= 1 /\ areq[1].op = "UploadChunk"
    /\ DOMAIN areq[1].headers = {"Content-Type", "User-Agent"}

\* The uploader sent a request with signing-method credentials.
C36_UploaderWitness ==
    /\ aup.kind = "uploader" /\ ~aup.creds.nil /\ aup.creds.c.Method = SigV4
    /\ Len(areq) = 1
    /\ "Authorization" \notin DOMAIN areq[1].headers


=============================================================================
